---- MODULE Spec2Model ----
(***************************************************************************)
(* Workflow subsystem of autotest: the dependency graph                    *)
(* (workflows/dependency_graph.py) and the workflow executor              *)
(* (workflows/executor.py) with its result objects (workflows/models.py). *)
(*                                                                         *)
(* Step names are strings in the source; here a name is a natural number  *)
(* and the numeric order stands for Python's ascending string sort.       *)
(* depends_on is a list in the source; the graph only iterates it and     *)
(* adds its elements to sets, so it is modelled as a set.                 *)
(***************************************************************************)
EXTENDS Integers, Sequences, FiniteSets, TLC

\* ----------------------------------------------------------------------
\* Bounds
\* ----------------------------------------------------------------------
\* Steps a DependencyGraph is built from in SpecGraph (names 1..MaxNodes).
MaxNodes == 3

\* ----------------------------------------------------------------------
\* Generic helpers
\* ----------------------------------------------------------------------
Range(s) == {s[i] : i \in DOMAIN s}

\* dict.get(key, set()) on a dict of sets
Get(d, k) == IF k \in DOMAIN d THEN d[k] ELSE {}

\* list.index(x): the first position of x
Index(s, x) == CHOOSE i \in DOMAIN s : s[i] = x /\ \A j \in 1..(i - 1) : s[j] # x

\* The orders in which a Python set or dict may be iterated. A dict is
\* iterated in insertion order and a set of strings in hash order; the model
\* keeps neither, so every order is possible wherever the code iterates one.
RECURSIVE Orders(_)
Orders(S) ==
    IF S = {} THEN {<<>>}
    ELSE UNION {{<<x>> \o rest : rest \in Orders(S \ {x})} : x \in S}

\* ----------------------------------------------------------------------
\* DependencyGraph
\* ----------------------------------------------------------------------
\* DependencyGraph.__init__: _nodes (name -> step), _edges (step ->
\* dependencies) and _reverse_edges (step -> dependents), all empty.
EmptyGraph == [nodes |-> <<>>, edges |-> <<>>, reverse_edges |-> <<>>]

\* the keys of _nodes
NodeSet(g) == DOMAIN g.nodes

\* self._edges[step.name].add(dep) for every dep of the step
AddEdges(g, step) ==
    IF step.depends_on = {} THEN g.edges
    ELSE [k \in DOMAIN g.edges \cup {step.name} |->
            IF k = step.name THEN Get(g.edges, k) \cup step.depends_on
            ELSE g.edges[k]]

\* self._reverse_edges[dep].add(step.name) for every dep of the step
AddReverseEdges(g, step) ==
    [k \in DOMAIN g.reverse_edges \cup step.depends_on |->
        IF k \in step.depends_on THEN Get(g.reverse_edges, k) \cup {step.name}
        ELSE g.reverse_edges[k]]

AddStep(g, step) ==
    [nodes |-> [k \in DOMAIN g.nodes \cup {step.name} |->
                  IF k = step.name THEN step ELSE g.nodes[k]],
     edges |-> AddEdges(g, step),
     reverse_edges |-> AddReverseEdges(g, step)]

RECURSIVE AddStepsFrom(_, _, _)
AddStepsFrom(g, steps, i) ==
    IF i > Len(steps) THEN g ELSE AddStepsFrom(AddStep(g, steps[i]), steps, i + 1)

AddSteps(g, steps) == AddStepsFrom(g, steps, 1)

\* The outcome of a graph operation: it returns (kind "ok", with a returned
\* list in `order`) or raises (kind names the exception, with its attributes).
Outcome(kind, step_name, dependency, cycle, order) ==
    [kind |-> kind, step_name |-> step_name, dependency |-> dependency,
     cycle |-> cycle, order |-> order]

Returned(order) == Outcome("ok", 0, 0, <<>>, order)
DependencyNotFoundError(step_name, dep) ==
    Outcome("DependencyNotFoundError", step_name, dep, <<>>, <<>>)
CircularDependencyError(cycle) ==
    Outcome("CircularDependencyError", 0, 0, cycle, <<>>)

\* validate() without its first loop
MissingOfNone(g, k) == {}

\* validate(), first loop: the dependencies of a step that are no node
MissingOf(g, k) == {dep \in Get(g.edges, k) : dep \notin NodeSet(g)}

\* validate(), first loop: it raises at the first missing dependency it
\* meets, walking _edges.items() and each set of dependencies.
MissingErrors(g) ==
    UNION {{DependencyNotFoundError(k, dep) : dep \in MissingOf(g, k)}
           : k \in DOMAIN g.edges}

WHITE == 0
GRAY == 1
BLACK == 2

\* color[node] = c
Paint(color, node, c) ==
    [n \in DOMAIN color |-> IF n = node THEN c ELSE color[n]]

\* the GRAY branch returning the whole path: path + [dep]
CyclePathWhole(path, dep) == Append(path, dep)

\* _detect_cycle.dfs, the GRAY branch: path[cycle_start:] + [dep]
CyclePath(path, dep) ==
    Append(SubSeq(path, Index(path, dep), Len(path)), dep)

\* _detect_cycle.dfs, the loop over the dependencies of `node` still to be
\* walked (`todo`): the set of results over every iteration order. A result
\* is the cycle found (<<>> for None) and the colouring left behind; path
\* is restored by path.pop() on every None return.
RECURSIVE DfsDeps(_, _, _, _, _)
DfsDeps(g, node, todo, color, path) ==
    IF todo = {}
    THEN {[cycle |-> <<>>, colors |-> Paint(color, node, BLACK)]}
    ELSE UNION {
        IF dep \notin NodeSet(g)
        THEN DfsDeps(g, node, todo \ {dep}, color, path)
        ELSE IF color[dep] = GRAY
        THEN {[cycle |-> CyclePath(path, dep), colors |-> color]}
        ELSE IF color[dep] = WHITE
        THEN UNION {IF r.cycle # <<>> THEN {r}
                    ELSE DfsDeps(g, node, todo \ {dep}, r.colors, path)
                    : r \in DfsDeps(g, dep, Get(g.edges, dep),
                                    Paint(color, dep, GRAY),
                                    Append(path, dep))}
        ELSE DfsDeps(g, node, todo \ {dep}, color, path)
        : dep \in todo}

\* dfs(node, path): colour the node GRAY, push it, walk its dependencies
Dfs(g, node, color, path) ==
    DfsDeps(g, node, Get(g.edges, node), Paint(color, node, GRAY),
            Append(path, node))

\* _detect_cycle, the outer loop over self._nodes (`todo`: the nodes it has
\* not come to yet)
RECURSIVE DetectCycleFrom(_, _, _)
DetectCycleFrom(g, todo, color) ==
    IF todo = {} THEN {<<>>}
    ELSE UNION {
        IF color[node] = WHITE
        THEN UNION {IF r.cycle # <<>> THEN {r.cycle}
                    ELSE DetectCycleFrom(g, todo \ {node}, r.colors)
                    : r \in Dfs(g, node, color, <<>>)}
        ELSE DetectCycleFrom(g, todo \ {node}, color)
        : node \in todo}

\* the cycles _detect_cycle may return (<<>> for None)
DetectCycle(g) == DetectCycleFrom(g, NodeSet(g), [n \in NodeSet(g) |-> WHITE])

\* validate(): the outcomes it may have
Validate(g) ==
    LET missing == MissingErrors(g)
    IN IF missing # {} THEN missing
       ELSE {IF c # <<>> THEN CircularDependencyError(c) ELSE Returned(<<>>)
             : c \in DetectCycle(g)}

\* _topological_sort with every in-degree 0
InDegreeZero(g) == [n \in NodeSet(g) |-> 0]

\* _topological_sort: in_degree of every node
InDegree(g) ==
    [n \in NodeSet(g) |->
        Cardinality({dep \in Get(g.edges, n) : dep \in NodeSet(g)})]

\* the while loop without queue.sort()
SortQueueKeep(queue) == queue

\* queue.sort()
SortQueue(queue) == SortSeq(queue, LAMBDA a, b : a < b)

\* _topological_sort, the while loop: the lists it may return. The
\* dependents that become ready are appended in the iteration order of the
\* set of dependents.
RECURSIVE Kahn(_, _, _, _)
Kahn(g, in_degree, queue, result) ==
    IF queue = <<>> THEN {result}
    ELSE LET sorted == SortQueue(queue)
             node == Head(sorted)
             dependents == Get(g.reverse_edges, node) \cap DOMAIN in_degree
             degree == [n \in DOMAIN in_degree |->
                          IF n \in dependents THEN in_degree[n] - 1
                          ELSE in_degree[n]]
             ready == {n \in dependents : degree[n] = 0}
         IN UNION {Kahn(g, degree, Tail(sorted) \o appended, Append(result, node))
                   : appended \in Orders(ready)}

\* _topological_sort: the queue starts as the nodes of in-degree 0 in the
\* key order of in_degree
TopologicalSort(g) ==
    LET in_degree == InDegree(g)
    IN UNION {Kahn(g, in_degree, queue, <<>>)
              : queue \in Orders({n \in NodeSet(g) : in_degree[n] = 0})}

\* get_execution_order(): validate(), then _topological_sort()
GetExecutionOrder(g) ==
    UNION {IF v.kind = "ok" THEN {Returned(order) : order \in TopologicalSort(g)}
           ELSE {v}
           : v \in Validate(g)}

\* get_parallel_groups with every in-degree 0
GroupInDegreeZero(g) == [n \in NodeSet(g) |-> 0]

\* get_parallel_groups: in_degree of every node
GroupInDegree(g) ==
    [n \in NodeSet(g) |->
        Cardinality({dep \in Get(g.edges, n) : dep \in NodeSet(g)})]

\* get_parallel_groups, the while loop: the lists of groups it may return.
\* `ready` is listed in the iteration order of the set `remaining`, then
\* sorted; every in-degree is lowered once per ready node the step depends
\* on.
RECURSIVE GroupsFrom(_, _, _, _)
GroupsFrom(g, in_degree, remaining, groups) ==
    IF remaining = {} THEN {groups}
    ELSE LET readyset == {n \in remaining : in_degree[n] = 0}
             degree == [n \in DOMAIN in_degree |->
                           in_degree[n] - Cardinality(
                               {r \in readyset : n \in Get(g.reverse_edges, r)})]
         IN IF readyset = {} THEN {groups}
            ELSE UNION {GroupsFrom(g, degree, remaining \ readyset,
                                   Append(groups, SortQueue(listing)))
                        : listing \in Orders(readyset)}

\* get_parallel_groups(): validate(), then the groups
GetParallelGroups(g) ==
    UNION {IF v.kind = "ok"
           THEN {Returned(groups)
                 : groups \in GroupsFrom(g, GroupInDegree(g), NodeSet(g), <<>>)}
           ELSE {v}
           : v \in Validate(g)}

\* ----------------------------------------------------------------------
\* Workflow models
\* ----------------------------------------------------------------------
\* StepStatus
PENDING == "pending"
RUNNING == "running"
PASSED == "passed"
FAILED == "failed"
SKIPPED == "skipped"
ERRORED == "errored"

\* FailureAction
ABORT == "abort"
CONTINUE == "continue"
RETRY == "retry"
FailureAction == {ABORT, CONTINUE, RETRY}

\* error_message values: None, the executor's own messages, and the text a
\* step or an exception supplies
NoMessage == <<>>
SkippedMessage == <<"Skipped due to previous failure">>
SetupFailedMessage(name) == <<"Setup step failed", name>>
StepFailedMessage(name) == <<"Step failed", name>>
StepMessage == <<"set by _execute_step">>
ExceptionMessage(kind) == <<"str(e)", kind>>

\* StepResult after finish(status, error_message)
StepResult(name, status, message) ==
    [step_name |-> name, status |-> status, error_message |-> message]

\* WorkflowResult(workflow_name=...)
NewWorkflowResult ==
    [status |-> PENDING, error_message |-> NoMessage, setup_results |-> <<>>,
     step_results |-> <<>>, teardown_results |-> <<>>]

\* WorkflowResult.failed_steps
FailedSteps(r) ==
    Len(SelectSeq(r.setup_results \o r.step_results \o r.teardown_results,
                  LAMBDA x : x.status = FAILED))

\* WorkflowResult.finish
FinishWorkflow(r, status, message) ==
    [r EXCEPT !.status = status, !.error_message = message]

\* ----------------------------------------------------------------------
\* State
\* ----------------------------------------------------------------------
VARIABLES
    graph,              \* the DependencyGraph object
    op,                 \* SpecGraph: the last operation called on the graph
    out,                \* SpecGraph: its outcome
    workflow,           \* execute(): the Workflow (setup, steps, teardown)
    on_step_complete,   \* execute(): whether the callback is supplied
    pc,                 \* execute(): the loop it is in ("idle" before the
                        \* call, "done" after it has returned)
    idx,                \* execute(): the position in that loop
    execution_order,    \* execute(): the local execution_order
    abort,              \* execute(): the local abort
    completed,          \* execute(): the local completed
    result,             \* execute(): the WorkflowResult
    policy,             \* the on_failure / ignore_failure execute() has read
    calls,              \* the steps _execute_step was called with, in order
    notified,           \* the StepResults on_step_complete was called with
    client,             \* WorkflowExecutor._client: "none", "open", "closed"
    shared_client,      \* SpecThreads: self._client of the executor two
                        \* threads call execute() on (0 for None, else the
                        \* thread whose execution created the client)
    threads,            \* SpecThreads: where each execute() call is
    clients,            \* SpecThreads: the client each call created
    sent,               \* SpecThreads: the requests made, in order
    current_step,       \* SpecStep: the WorkflowStep _execute_step is called with
    sr,                 \* SpecStep: the StepResult of the call
    spc,                \* SpecStep: where the call is
    engine,             \* SpecStep: what the call did to the ExpressionEngine
    collected,          \* SpecStep: _execute_loop's collected_values[K]
    attempts,           \* SpecStep: _execute_poll's attempts
    log,                \* SpecStep: the requests made, in order, with what
                        \* _execute_request and the poll loop did with each
    validator,          \* SpecValidator: the ResponseValidator (self.errors)
    expect,             \* SpecValidator: the expectation it is called with
    response,           \* SpecValidator: the response of the latest call
    validated,          \* SpecValidator: what the latest call came to
    value,              \* SpecExpr: the value evaluate is called with
    context,            \* SpecExpr: ExpressionEngine.context
    evaluated,          \* SpecExpr: what the call came to
    document,           \* SpecParser: the data parse_dict is called with
    parsed,             \* SpecParser: what the call came to
    collector,          \* SpecCollector: the DataCollector (lock, run_info)
    recorders,          \* SpecCollector: where each thread's record_test is
    poll_config,        \* SpecPoll: the PollConfig of the step
    polling,            \* SpecPoll: _execute_poll's clock, counters and position
    id_store,           \* SpecStore: the IDStore (its indexes and its StoredIDs)
    store_op            \* SpecStore: the last operation called on the store

graphVars == <<graph, op, out>>
execVars ==
    <<workflow, on_step_complete, pc, idx, execution_order, abort, completed,
      result, policy, calls, notified, client>>
threadVars == <<shared_client, threads, clients, sent>>
stepVars == <<current_step, sr, spc, engine, collected, attempts, log>>
validatorVars == <<validator, expect, response, validated>>
exprVars == <<value, context, evaluated>>
parserVars == <<document, parsed>>
collectorVars == <<collector, recorders>>
pollVars == <<poll_config, polling>>
storeVars == <<id_store, store_op>>
libVars == <<validatorVars, exprVars, parserVars, collectorVars, pollVars, storeVars>>
vars == <<graphVars, execVars, threadVars, stepVars, libVars>>

\* ----------------------------------------------------------------------
\* WorkflowExecutor.execute
\* ----------------------------------------------------------------------
\* Steps of a workflow over its three sections together.
MaxSteps == 4

\* A WorkflowStep as the graph and the executor's loops read it. Its
\* on_failure and ignore_failure are read only where a FAILED result is
\* handled, once per step; they are drawn there and kept in `policy`.
Step(name, depends_on) == [name |-> name, depends_on |-> depends_on]

\* The depends_on of main step k: nothing, itself (a cycle), its successor
\* by name (registered unless k is the last step: a missing dependency), or
\* both.
DependsOn(k, choice) ==
    (IF choice \in {"self", "both"} THEN {k} ELSE {}) \cup
    (IF choice \in {"next", "both"} THEN {k + 1} ELSE {})

\* Setup steps are named 101, 102, ..., main steps 1, 2, ..., teardown
\* steps 201, 202, ... (names are unique over the three sections).
WorkflowOf(ns, choice, nt) ==
    [setup |-> [k \in 1..ns |-> Step(100 + k, {})],
     steps |-> [k \in DOMAIN choice |-> Step(k, DependsOn(k, choice[k]))],
     teardown |-> [k \in 1..nt |-> Step(200 + k, {})]]

Sizes ==
    {s \in (0..MaxSteps) \X (0..MaxSteps) \X (0..MaxSteps) :
        s[1] + s[2] + s[3] <= MaxSteps}

\* the terminal statuses _execute_step finishes its StepResult with
TerminalStatus == {PASSED, FAILED, SKIPPED, ERRORED}

\* the attributes of a step nothing has read
Unread == [on_failure |-> "unread", ignore_failure |-> "unread"]

\* WorkflowStep.on_failure and .ignore_failure as a main step may have them
MainPolicies ==
    {[on_failure |-> f, ignore_failure |-> b] : f \in FailureAction, b \in BOOLEAN}

\* WorkflowStep.ignore_failure as a setup step may have it (the setup loop
\* reads no on_failure)
SetupPolicies ==
    {[on_failure |-> "unread", ignore_failure |-> b] : b \in BOOLEAN}

\* the execute() calls of SpecThreads
Threads == {1, 2}

\* WorkflowExecutor.__init__ (self._client = None), no call made
ThreadsIdle ==
    /\ shared_client = 0
    /\ threads = [t \in Threads |-> [pc |-> "idle", requests |-> 0]]
    /\ clients = [t \in Threads |-> "none"]
    /\ sent = <<>>

\* no WorkflowStep, no _execute_step call
NoStep ==
    [kind |-> "none", condition |-> "none", variables |-> "none",
     extract |-> FALSE, mode |-> "none", n |-> 0, loop_until |-> FALSE,
     poll_until |-> FALSE, poll_while |-> FALSE, on_timeout |-> "fail"]

\* an extracted_data dict over the one extract key of the model: empty
\* (has |-> FALSE), or holding a value (is_list |-> FALSE, the value in
\* `values`) or a list of values
NoData == [has |-> FALSE, is_list |-> FALSE, values |-> <<>>]
Value(v) == [has |-> TRUE, is_list |-> FALSE, values |-> <<v>>]
ListOf(vs) == [has |-> TRUE, is_list |-> TRUE, values |-> vs]

\* StepResult(step_name=..., status=RUNNING, start_time=...): end_time is
\* None (FALSE) until finish sets it; finished is the statuses finish has
\* been called with on this object, in order
NewStepResult ==
    [status |-> RUNNING, error_message |-> NoMessage, extracted_data |-> NoData,
     response_body |-> "none", poll_attempts |-> 0, loop_iteration |-> 0,
     end_time |-> FALSE, finished |-> <<>>]

\* the ExpressionEngine of the call: whether the step's variables were
\* merged into the context, the extracted data put into the context,
\* whether the context holds __response__, whether __steps__ holds the
\* name of the step, and what the context holds under the name loop.as
\* (<<>>: nothing)
NewEngine == [merged |-> FALSE, context |-> NoData, response |-> FALSE,
              steps |-> FALSE, as_var |-> <<>>]

StepIdle ==
    /\ current_step = NoStep
    /\ sr = NewStepResult
    /\ spc = "idle"
    /\ engine = NewEngine
    /\ collected = <<>>
    /\ attempts = 0
    /\ log = <<>>

\* the response and the expectation before any is given
NoResponse == [status |-> 0, h1 |-> 0, id |-> 0, items |-> 0, time_ms |-> 0]
NoExpect ==
    [status |-> [kind |-> "absent", values |-> {}], headers |-> <<>>,
     body |-> [id |-> "absent", items |-> "absent", name |-> "absent"],
     response_time_ms |-> "none", custom |-> <<>>]

ValidatorIdle ==
    /\ validator = [errors |-> <<>>]
    /\ expect = NoExpect
    /\ response = NoResponse
    /\ validated = [kind |-> "none", errors |-> <<>>]

\* Python's None, as the values of SpecExpr are written
NoValue == [type |-> "NoneType", val |-> <<"N", "o", "n", "e">>,
            keys |-> <<>>, items |-> <<>>]

ExprIdle ==
    /\ value = NoValue
    /\ context = [top |-> [has |-> FALSE, value |-> NoValue],
                  variables |-> [has |-> FALSE, value |-> NoValue]]
    /\ evaluated = [kind |-> "none", value |-> NoValue]

ParserIdle ==
    /\ document = [leading |-> FALSE, setup |-> <<>>, steps |-> <<>>,
                   teardown |-> <<>>]
    /\ parsed = [kind |-> "none", raised_in |-> "", workflow_name |-> "",
                 step_name |-> 0, field |-> "", workflows |-> <<>>]

CollectorIdle ==
    /\ collector = [lock |-> 0,
                    run_info |-> [total_tests |-> 0, passed |-> 0, failed |-> 0,
                                  errored |-> 0, skipped |-> 0, endpoints |-> <<>>,
                                  test_results |-> <<>>]]
    /\ recorders = [t \in {1, 2} |-> [pc |-> "idle", done |-> 0, status |-> "",
                                       endpoint |-> "", total |-> 0]]

PollIdle ==
    /\ poll_config = [interval |-> 1, timeout |-> 1, initial_delay |-> 0,
                      on_timeout |-> "fail"]
    /\ polling = [pc |-> "idle", clock |-> 0, attempts |-> 0, requests |-> 0,
                  status |-> "running", poll_attempts |-> 0]

StoreIdle ==
    /\ id_store = [objects |-> <<>>, all_ids |-> <<>>,
                   by_resource_type |-> [k \in {"T", "U"} |-> <<>>],
                   by_parameter |-> [k \in {"p", "q"} |-> <<>>],
                   by_endpoint |-> [k \in {"e"} |-> <<>>],
                   by_field_name |-> [k \in {"id"} |-> <<>>]]
    /\ store_op = [name |-> "init", resource_type |-> ""]

LibIdle ==
    ValidatorIdle /\ ExprIdle /\ ParserIdle /\ CollectorIdle /\ PollIdle /\ StoreIdle

ExecIdle ==
    /\ pc = "idle"
    /\ idx = 0
    /\ execution_order = <<>>
    /\ abort = FALSE
    /\ completed = {}
    /\ result = NewWorkflowResult
    /\ policy = <<>>
    /\ calls = <<>>
    /\ notified = <<>>
    /\ client = "none"
\* no workflow is executed and no graph is built
ProgramIdle ==
    /\ graph = EmptyGraph
    /\ op = "init"
    /\ out = Returned(<<>>)
    /\ workflow = [setup |-> <<>>, steps |-> <<>>, teardown |-> <<>>]
    /\ on_step_complete = FALSE
    /\ ExecIdle
    /\ ThreadsIdle
    /\ StepIdle


Init ==
    /\ graph = EmptyGraph
    /\ op = "init"
    /\ out = Returned(<<>>)
    /\ LibIdle
    /\ \E s \in Sizes :
       \E choice \in [1..s[2] -> {"none", "self", "next", "both"}] :
          workflow = WorkflowOf(s[1], choice, s[3])
    /\ on_step_complete \in BOOLEAN
    /\ ExecIdle
    /\ ThreadsIdle
    /\ StepIdle

\* an executor without its finally block
FinallyMissing(c) == c

\* finally: if self._client: self._client.close(); self._client = None
Finally(c) == IF c = "open" THEN "closed" ELSE c

\* an executor without its teardown loop
GotoNoTeardown(phase, k, order) ==
    IF phase = "setup" /\ k <= Len(workflow.setup) THEN <<"setup", k>>
    ELSE IF phase = "setup" THEN <<"graph", 0>>
    ELSE IF phase = "main" /\ k <= Len(order) THEN <<"main", k>>
    ELSE <<"finish", 0>>

\* The next loop position: position k of `phase` if that loop has one, else
\* the start of what follows the loop.
Goto(phase, k, order) ==
    IF phase = "setup" /\ k <= Len(workflow.setup) THEN <<"setup", k>>
    ELSE IF phase = "setup" THEN <<"graph", 0>>
    ELSE IF phase = "main" /\ k <= Len(order) THEN <<"main", k>>
    ELSE IF phase = "main" /\ Len(workflow.teardown) >= 1 THEN <<"teardown", 1>>
    ELSE IF phase = "teardown" /\ k <= Len(workflow.teardown)
    THEN <<"teardown", k>>
    ELSE <<"finish", 0>>

\* if on_step_complete: on_step_complete(step_result)
Notify(step_result) ==
    IF on_step_complete THEN Append(notified, step_result) ELSE notified

\* execute(), up to the try: the result, the context and the HTTP client
Execute ==
    /\ pc = "idle"
    /\ result' = NewWorkflowResult
    /\ client' = "open"
    /\ pc' = Goto("setup", 1, <<>>)[1]
    /\ idx' = Goto("setup", 1, <<>>)[2]
    /\ UNCHANGED <<libVars, stepVars, graphVars, threadVars, workflow, on_step_complete, execution_order,
                   abort, completed, policy, calls, notified>>

\* a setup loop that never returns early
SetupStopsNever(status, read) == FALSE

\* a setup loop that returns early on an ERRORED step as on a FAILED one
SetupStopsErrored(status, read) ==
    status = ERRORED \/ (status = FAILED /\ ~read.ignore_failure)

\* if step_result.status == StepStatus.FAILED and not step.ignore_failure
SetupStops(status, read) == status = FAILED /\ ~read.ignore_failure

\* execute(), one iteration of the setup loop; a FAILED step that is not
\* ignored finishes the workflow and returns through the finally block
SetupStep ==
    /\ pc = "setup"
    /\ LET step == workflow.setup[idx] IN
       \E status \in TerminalStatus :
       \E read \in IF status = FAILED THEN SetupPolicies ELSE {Unread} :
          LET step_result == StepResult(step.name, status, StepMessage)
              added == [result EXCEPT
                           !.setup_results = Append(@, step_result)]
          IN /\ calls' = Append(calls, step.name)
             /\ notified' = Notify(step_result)
             /\ policy' = IF status = FAILED
                          THEN [k \in DOMAIN policy \cup {step.name} |->
                                   IF k = step.name THEN read ELSE policy[k]]
                          ELSE policy
             /\ IF SetupStops(status, read)
                THEN /\ result' = FinishWorkflow(added, FAILED,
                                                 SetupFailedMessage(step.name))
                     /\ client' = Finally(client)
                     /\ pc' = "done"
                     /\ idx' = 0
                ELSE /\ result' = added
                     /\ client' = client
                     /\ pc' = Goto("setup", idx + 1, <<>>)[1]
                     /\ idx' = Goto("setup", idx + 1, <<>>)[2]
    /\ UNCHANGED <<libVars, stepVars, graphVars, threadVars, workflow, on_step_complete, execution_order,
                   abort, completed>>

\* execute(): the graph is built and ordered; an exception of
\* get_execution_order reaches `except Exception` and the finally block
BuildOrder ==
    /\ pc = "graph"
    /\ LET built == AddSteps(EmptyGraph, workflow.steps) IN
       \E o \in GetExecutionOrder(built) :
          /\ graph' = built
          /\ IF o.kind = "ok"
             THEN /\ execution_order' = o.order
                  /\ pc' = Goto("main", 1, o.order)[1]
                  /\ idx' = Goto("main", 1, o.order)[2]
                  /\ UNCHANGED <<result, client>>
             ELSE /\ execution_order' = execution_order
                  /\ result' = FinishWorkflow(result, ERRORED,
                                              ExceptionMessage(o.kind))
                  /\ client' = Finally(client)
                  /\ pc' = "done"
                  /\ idx' = 0
    /\ completed' = {}
    /\ abort' = FALSE
    /\ UNCHANGED <<libVars, stepVars, op, out, threadVars, workflow, on_step_complete, policy, calls, notified>>

\* a main loop that records nothing for the steps it skips
SkipStepUnrecorded ==
    /\ pc = "main"
    /\ abort
    /\ pc' = Goto("main", idx + 1, execution_order)[1]
    /\ idx' = Goto("main", idx + 1, execution_order)[2]
    /\ UNCHANGED <<libVars, stepVars, graphVars, threadVars, workflow, on_step_complete, execution_order,
                   abort, completed, result, policy, calls, notified, client>>

\* execute(), one iteration of the main loop once abort is set: the step
\* is recorded SKIPPED (graph.get_step finds every name of the order)
SkipStep ==
    /\ pc = "main"
    /\ abort
    /\ LET step_name == execution_order[idx]
           skip_result == StepResult(step_name, SKIPPED, SkippedMessage)
       IN result' = [result EXCEPT !.step_results = Append(@, skip_result)]
    /\ pc' = Goto("main", idx + 1, execution_order)[1]
    /\ idx' = Goto("main", idx + 1, execution_order)[2]
    /\ UNCHANGED <<libVars, stepVars, graphVars, threadVars, workflow, on_step_complete, execution_order,
                   abort, completed, policy, calls, notified, client>>

\* a main loop that never sets abort
AbortsNever(read) == FALSE

\* a main loop for which on_failure=retry aborts as on_failure=abort does
AbortsOnRetry(read) == read.on_failure \in {ABORT, RETRY} /\ ~read.ignore_failure

\* if step.on_failure == FailureAction.ABORT and not step.ignore_failure
Aborts(read) == read.on_failure = ABORT /\ ~read.ignore_failure

\* a graph in which no step is found
GetStepNone(g, name) == <<>>

\* DependencyGraph.get_step: the step of the name (<<>>: None)
GetStep(g, name) == IF name \in DOMAIN g.nodes THEN <<g.nodes[name]>> ELSE <<>>

\* execute(), one iteration of the main loop while abort is not set: a
\* name for which get_step finds no step is passed over, the others are
\* executed
MainStep ==
    /\ pc = "main"
    /\ ~abort
    /\ LET step_name == execution_order[idx]
           found == GetStep(graph, step_name)
           step == found[1]
       IN
       IF found = <<>>
       THEN UNCHANGED <<calls, notified, policy, completed, abort, result>>
       ELSE
       \E status \in TerminalStatus :
       \E read \in IF status = FAILED THEN MainPolicies ELSE {Unread} :
          LET step_result == StepResult(step.name, status, StepMessage)
              added == [result EXCEPT !.step_results = Append(@, step_result)]
          IN /\ calls' = Append(calls, step.name)
             /\ notified' = Notify(step_result)
             /\ policy' = IF status = FAILED
                          THEN [k \in DOMAIN policy \cup {step.name} |->
                                   IF k = step.name THEN read ELSE policy[k]]
                          ELSE policy
             /\ completed' =
                   IF status = PASSED THEN completed \cup {step_name}
                   ELSE IF status = FAILED /\ ~Aborts(read) /\ read.ignore_failure
                   THEN completed \cup {step_name}
                   ELSE completed
             /\ abort' = (status = FAILED /\ Aborts(read))
             /\ result' = IF status = FAILED /\ Aborts(read)
                          THEN [added EXCEPT
                                   !.error_message = StepFailedMessage(step_name)]
                          ELSE added
    /\ pc' = Goto("main", idx + 1, execution_order)[1]
    /\ idx' = Goto("main", idx + 1, execution_order)[2]
    /\ UNCHANGED <<libVars, stepVars, graphVars, threadVars, workflow, on_step_complete, execution_order, client>>

\* execute(), one iteration of the teardown loop
TeardownStep ==
    /\ pc = "teardown"
    /\ LET step == workflow.teardown[idx] IN
       \E status \in TerminalStatus :
          LET step_result == StepResult(step.name, status, StepMessage)
          IN /\ calls' = Append(calls, step.name)
             /\ notified' = Notify(step_result)
             /\ result' = [result EXCEPT
                              !.teardown_results = Append(@, step_result)]
    /\ pc' = Goto("teardown", idx + 1, execution_order)[1]
    /\ idx' = Goto("teardown", idx + 1, execution_order)[2]
    /\ UNCHANGED <<libVars, stepVars, graphVars, threadVars, workflow, on_step_complete, execution_order,
                   abort, completed, policy, client>>

\* if abort or result.failed_steps > 0
FinalStatus(latched, r) == IF latched \/ FailedSteps(r) > 0 THEN FAILED ELSE PASSED

\* execute(): the final status, then the finally block and the return
Finish ==
    /\ pc = "finish"
    /\ result' = FinishWorkflow(result, FinalStatus(abort, result),
                                IF FinalStatus(abort, result) = FAILED
                                THEN result.error_message ELSE NoMessage)
    /\ client' = Finally(client)
    /\ pc' = "done"
    /\ idx' = 0
    /\ UNCHANGED <<libVars, stepVars, graphVars, threadVars, workflow, on_step_complete, execution_order,
                   abort, completed, policy, calls, notified>>

\* execute(), an iteration of the setup, main or teardown loop in which
\* on_step_complete raises an Exception: the result is recorded, the call
\* is made, and `except Exception` and the finally block end the execution
StepRaises(phase) ==
    /\ pc = phase
    /\ on_step_complete
    /\ phase = "main" => ~abort
    /\ LET name == IF phase = "setup" THEN workflow.setup[idx].name
                   ELSE IF phase = "main" THEN execution_order[idx]
                   ELSE workflow.teardown[idx].name
       IN \E status \in TerminalStatus :
             LET step_result == StepResult(name, status, StepMessage)
                 added ==
                    IF phase = "setup"
                    THEN [result EXCEPT !.setup_results = Append(@, step_result)]
                    ELSE IF phase = "main"
                    THEN [result EXCEPT !.step_results = Append(@, step_result)]
                    ELSE [result EXCEPT !.teardown_results = Append(@, step_result)]
             IN /\ calls' = Append(calls, name)
                /\ notified' = Append(notified, step_result)
                /\ result' = FinishWorkflow(added, ERRORED,
                                            ExceptionMessage("on_step_complete"))
    /\ client' = Finally(client)
    /\ pc' = "done"
    /\ idx' = 0
    /\ UNCHANGED <<libVars, stepVars, graphVars, threadVars, workflow, on_step_complete, execution_order,
                   abort, completed, policy>>

SetupCallbackRaises == StepRaises("setup")
MainCallbackRaises == StepRaises("main")
TeardownCallbackRaises == StepRaises("teardown")

Next ==
    \/ Execute
    \/ SetupStep
    \/ BuildOrder
    \/ SkipStep
    \/ MainStep
    \/ TeardownStep
    \/ Finish

Spec == Init /\ [][Next]_vars

\* execute() with a callback that may raise
NextRaising ==
    \/ Next
    \/ SetupCallbackRaises
    \/ MainCallbackRaises
    \/ TeardownCallbackRaises

SpecRaising == Init /\ [][NextRaising]_vars

\* ----------------------------------------------------------------------
\* SpecThreads: two threads call execute() on one WorkflowExecutor
\* ----------------------------------------------------------------------
\* Requests one execute() call makes.
MaxRequests == 2

ThreadInit ==
    /\ graph = EmptyGraph
    /\ op = "init"
    /\ out = Returned(<<>>)
    /\ LibIdle
    /\ workflow = [setup |-> <<>>, steps |-> <<>>, teardown |-> <<>>]
    /\ on_step_complete = FALSE
    /\ ExecIdle
    /\ ThreadsIdle
    /\ StepIdle

At(t, where) == [threads EXCEPT ![t].pc = where]

\* execute(): self._client = httpx.Client(...)
TCreateClient(t) ==
    /\ threads[t].pc = "idle"
    /\ clients' = [clients EXCEPT ![t] = "open"]
    /\ shared_client' = t
    /\ threads' = At(t, "steps")
    /\ UNCHANGED <<libVars, stepVars, graphVars, execVars, sent>>

\* what self._client.request(...) does with the client self._client is at
\* the moment of the call: no client (AttributeError on None) and a closed
\* client (httpx raises RuntimeError) both end the step in
\* _execute_step's `except Exception`
Request(t) ==
    [thread |-> t,
     client |-> shared_client,
     outcome |-> IF shared_client = 0 THEN "no client"
                 ELSE IF clients[shared_client] = "closed" THEN "client closed"
                 ELSE "sent"]

\* _execute_request: response = self._client.request(...)
TRequest(t) ==
    /\ threads[t].pc = "steps"
    /\ threads[t].requests < MaxRequests
    /\ sent' = Append(sent, Request(t))
    /\ threads' = [threads EXCEPT ![t].requests = @ + 1]
    /\ UNCHANGED <<libVars, stepVars, graphVars, execVars, shared_client, clients>>

\* execute(): the try block is left (at its end or by a return or an
\* exception) and the finally block tests `if self._client`
TFinally(t) ==
    /\ threads[t].pc = "steps"
    /\ threads' = At(t, IF shared_client # 0 THEN "close" ELSE "returned")
    /\ UNCHANGED <<libVars, stepVars, graphVars, execVars, shared_client, clients, sent>>

\* finally: self._client.close(), on the client self._client is now; on
\* None the AttributeError leaves execute()
TClose(t) ==
    /\ threads[t].pc = "close"
    /\ IF shared_client = 0
       THEN /\ threads' = At(t, "raised")
            /\ UNCHANGED clients
       ELSE /\ clients' = [clients EXCEPT ![shared_client] = "closed"]
            /\ threads' = At(t, "clear")
    /\ UNCHANGED <<libVars, stepVars, graphVars, execVars, shared_client, sent>>

\* finally: self._client = None, and execute() returns
TClear(t) ==
    /\ threads[t].pc = "clear"
    /\ shared_client' = 0
    /\ threads' = At(t, "returned")
    /\ UNCHANGED <<libVars, stepVars, graphVars, execVars, clients, sent>>

ThreadNext ==
    \E t \in Threads :
        \/ TCreateClient(t)
        \/ TRequest(t)
        \/ TFinally(t)
        \/ TClose(t)
        \/ TClear(t)

SpecThreads == ThreadInit /\ [][ThreadNext]_vars

\* ----------------------------------------------------------------------
\* SpecStep: one main-loop iteration, _execute_step and what execute()
\* does with its result
\* ----------------------------------------------------------------------
\* Iterations of a loop step (loop.count, or the length of loop.over).
MaxCount == 3

\* Attempts of a poll step before its timeout has elapsed for certain.
MaxAttempts == 3

\* The WorkflowSteps _execute_step is called with. condition: absent, or
\* an expression whose value is truthy or falsy or whose evaluation
\* raises; variables: absent, or evaluating, or raising; extract: absent
\* or one key; a loop by count (with or without until) or over a list; a
\* poll with or without until ({status: [done]}) and while
\* ({status: pending}).
StepShapes ==
    {[NoStep EXCEPT !.kind = "request"]}
    \cup {[NoStep EXCEPT !.kind = "loop", !.mode = "count", !.n = n,
                         !.loop_until = u]
          : n \in 0..MaxCount, u \in BOOLEAN}
    \cup {[NoStep EXCEPT !.kind = "loop", !.mode = "over", !.n = n]
          : n \in 0..MaxCount}
    \cup {[NoStep EXCEPT !.kind = "poll", !.poll_until = u, !.poll_while = w,
                         !.on_timeout = t]
          : u \in BOOLEAN, w \in BOOLEAN, t \in {"fail", "continue"}}

WorkflowSteps ==
    {[shape EXCEPT !.condition = c, !.variables = v, !.extract = e]
     : shape \in StepShapes,
       c \in {"none", "truthy", "falsy", "raises"},
       v \in {"none", "ok", "raises"},
       e \in BOOLEAN}

StepInit ==
    /\ graph = EmptyGraph
    /\ op = "init"
    /\ out = Returned(<<>>)
    /\ LibIdle
    /\ workflow = [setup |-> <<>>, steps |-> <<>>, teardown |-> <<>>]
    /\ on_step_complete = FALSE
    /\ ExecIdle
    /\ ThreadsIdle
    /\ current_step \in WorkflowSteps
    /\ sr = NewStepResult
    /\ spc = "idle"
    /\ engine = NewEngine
    /\ collected = <<>>
    /\ attempts = 0
    /\ log = <<>>

\* StepResult.finish
FinishStep(r, status, message) ==
    [r EXCEPT !.status = status, !.error_message = message, !.end_time = TRUE,
              !.finished = Append(@, status)]

\* an exception that leaves _execute_step without the result being finished
RaiseUnfinished(r, kind) == r

\* _execute_step: except Exception as e: result.finish(ERRORED, str(e))
Raise(r, kind) == FinishStep(r, ERRORED, ExceptionMessage(kind))

\* what a request may end with: a response that passes validation, a
\* response that fails it, a response from which extraction raises, a
\* timeout (httpx.TimeoutException), another httpx.RequestError
RequestOutcomes ==
    {"passed", "invalid", "timeout", "request_error"}
    \cup (IF current_step.extract THEN {"extraction_error"} ELSE {})

\* the response bodies: {status: pending}, {status: done} and
\* {status: failed}; only a poll step looks at them
Bodies ==
    IF current_step.kind = "poll" THEN {"pending", "done", "failed"} ELSE {"done"}

\* a transport error classified like any other request error
TimeoutStatusErrored == ERRORED

\* except httpx.TimeoutException: result.finish(StepStatus.FAILED, ...)
TimeoutStatus == FAILED

\* a validation whose failures do not keep the request from extracting
NoFailuresAny(outcome) == outcome \in {"passed", "extraction_error", "invalid"}

\* _execute_request: if errors ... else: the validator returned no failures
NoFailures(outcome) == outcome \in {"passed", "extraction_error"}

\* ExpressionEngine.set_response_data, clear_response_data, set_step_data
SetResponseData(e) == [e EXCEPT !.response = TRUE]
ClearResponseData(e) == [e EXCEPT !.response = FALSE]
SetStepData(e) == [e EXCEPT !.steps = TRUE]

\* ExpressionEngine._resolve_response_reference, _resolve_steps_reference
\* (of the name of the step): a value, or ExpressionError
ResolveResponseReference(e) == IF e.response THEN "value" ELSE "ExpressionError"
ResolveStepsReference(e) == IF e.steps THEN "value" ELSE "ExpressionError"

\* _execute_request for the request number `number` of the call: the
\* StepResult (the one object the callers pass in and get back) and the
\* engine after it, what it did (validated, extracted, stored: the step
\* data persisted by set_step_data), and whether it raised
ExecuteRequest(r, e, outcome, body, number) ==
    LET responded == outcome \in {"passed", "invalid", "extraction_error"}
        got == IF responded THEN [r EXCEPT !.response_body = body] ELSE r
        proceeds == responded /\ NoFailures(outcome)
        raised == proceeds /\ outcome = "extraction_error"
        extracts == proceeds /\ ~raised /\ current_step.extract
        stored == proceeds /\ ~raised
        set == IF responded THEN SetResponseData(e) ELSE e
        entry == [number |-> number, outcome |-> outcome,
                  body |-> IF responded THEN body ELSE "none",
                  validated |-> responded,
                  extracted |-> extracts,
                  stored |-> stored,
                  until_checked |-> FALSE, while_checked |-> FALSE,
                  until |-> "unevaluated"]
    IN [sr |->
           IF stored
           THEN FinishStep([got EXCEPT !.extracted_data =
                               IF extracts THEN Value(number) ELSE @],
                           PASSED, NoMessage)
           ELSE IF raised
           THEN got
           ELSE IF responded
           THEN FinishStep(got, FAILED, <<"errors[0].message">>)
           ELSE IF outcome = "timeout"
           THEN FinishStep(got, TimeoutStatus, <<"Request timed out">>)
           ELSE FinishStep(got, ERRORED, <<"Request failed">>),
        engine |->
           IF stored
           THEN ClearResponseData(
                   SetStepData([set EXCEPT !.context =
                                   IF extracts THEN Value(number) ELSE @]))
           ELSE IF raised
           THEN set
           ELSE IF responded
           THEN ClearResponseData(set)
           ELSE e,
        entry |-> entry,
        raised |-> raised]

\* a step that runs whatever its condition
GatedNever(condition) == FALSE

\* _execute_step: the condition is present and its value falsy, or its
\* evaluation raises
Gated(condition) == condition \in {"falsy", "raises"}

\* _execute_loop, lines 419-424: the collected values become the step's
\* extracted_data and go into the context
FinishLoop(r, values, iteration) ==
    FinishStep([r EXCEPT !.extracted_data =
                            IF current_step.extract THEN ListOf(values) ELSE NoData,
                         !.loop_iteration = iteration],
               PASSED, NoMessage)

\* _execute_step up to the dispatch: the condition, the step variables,
\* then the loop (with the evaluation of loop.over), the poll or the
\* single request
StepStart ==
    /\ spc = "idle"
    /\ IF Gated(current_step.condition)
       THEN /\ sr' = FinishStep(sr, SKIPPED,
                        IF current_step.condition = "falsy"
                        THEN <<"Condition not met">>
                        ELSE <<"Condition evaluation failed">>)
            /\ spc' = "returned"
            /\ UNCHANGED engine
       ELSE IF current_step.variables = "raises"
       THEN /\ sr' = Raise(sr, "variables")
            /\ spc' = "returned"
            /\ UNCHANGED engine
       ELSE /\ engine' = [engine EXCEPT !.merged = current_step.variables = "ok"]
            /\ IF current_step.kind = "loop" /\ current_step.mode = "over"
               THEN \E evaluates \in BOOLEAN :
                       IF ~evaluates
                       THEN sr' = Raise(sr, "loop.over") /\ spc' = "returned"
                       ELSE IF current_step.n = 0
                       THEN sr' = FinishLoop(sr, <<>>, 0) /\ spc' = "returned"
                       ELSE sr' = sr /\ spc' = "loop"
               ELSE IF current_step.kind = "loop" /\ current_step.n = 0
               THEN sr' = FinishLoop(sr, <<>>, 0) /\ spc' = "returned"
               ELSE sr' = sr /\ spc' = current_step.kind
    /\ UNCHANGED <<libVars, graphVars, execVars, threadVars, current_step, collected,
                   attempts, log>>

\* _execute_step: return self._execute_request(...), the single request
SingleRequest ==
    /\ spc = "request"
    /\ \E outcome \in RequestOutcomes, body \in Bodies :
          LET x == ExecuteRequest(sr, engine, outcome, body, 1)
          IN /\ sr' = IF x.raised THEN Raise(x.sr, "extract") ELSE x.sr
             /\ engine' = x.engine
             /\ log' = Append(log, x.entry)
    /\ spc' = "returned"
    /\ UNCHANGED <<libVars, graphVars, execVars, threadVars, current_step, collected,
                   attempts>>

\* ExpressionEngine.set_variable(loop.as_var, ...)
SetVariable(e, v) == [e EXCEPT !.as_var = <<v>>]

\* a loop that an ERRORED iteration ends as a FAILED one does
IterationStopsErrored(status) == status \in {FAILED, ERRORED}

\* _execute_loop: if iter_result.status == StepStatus.FAILED
IterationStops(status) == status = FAILED

\* a loop.until that never stops the loop
LoopBreaksNever(until_value) == FALSE

\* _execute_loop: if self._evaluate_condition(until_result): break (an
\* until whose evaluation raises is passed over)
LoopBreaks(until_value) == until_value = "true"

\* _execute_loop, one iteration of either for loop: the request, the values
\* of iter_result.extracted_data collected, a FAILED iteration, loop.until
\* (count loops only), and after the last iteration lines 419-424
LoopIteration ==
    /\ spc = "loop"
    /\ Len(log) < current_step.n
    /\ \E outcome \in RequestOutcomes, body \in Bodies :
       \E until_value \in IF current_step.mode = "count" /\ current_step.loop_until
                          THEN {"true", "false", "raises"} ELSE {"unevaluated"} :
          LET i == Len(log)
              x == ExecuteRequest(sr, SetVariable(engine, i), outcome, body, i + 1)
              values == IF x.sr.extracted_data.has
                        THEN Append(collected, x.sr.extracted_data.values[1])
                        ELSE collected
              ends == \/ LoopBreaks(until_value)
                      \/ (~IterationStops(x.sr.status) /\ i + 1 = current_step.n)
          IN /\ log' = Append(log, [x.entry EXCEPT !.until =
                                       IF x.raised THEN "unevaluated" ELSE until_value])
             /\ IF x.raised
                THEN /\ sr' = Raise(x.sr, "extract")
                     /\ engine' = x.engine
                     /\ collected' = collected
                     /\ spc' = "returned"
                ELSE /\ collected' = values
                     /\ IF ends
                        THEN /\ sr' = FinishLoop(x.sr, values, i)
                             /\ engine' = [x.engine EXCEPT !.context =
                                              IF current_step.extract
                                              THEN ListOf(values) ELSE @]
                             /\ spc' = "returned"
                        ELSE IF IterationStops(x.sr.status)
                        THEN /\ sr' = FinishStep(x.sr, FAILED, x.sr.error_message)
                             /\ engine' = x.engine
                             /\ spc' = "returned"
                        ELSE /\ sr' = x.sr
                             /\ engine' = x.engine
                             /\ spc' = "loop"
    /\ UNCHANGED <<libVars, graphVars, execVars, threadVars, current_step, attempts>>

\* _check_poll_condition on a condition {status: expected} and a body
\* {status: body} (body "none": no body, or no such key)
CheckPollConditionNever(expected, body) == FALSE
CheckPollCondition(expected, body) == body \in expected

\* a poll loop that goes on after a request error
PollStopsNever(status) == FALSE

\* a poll loop that a FAILED attempt ends as an ERRORED one does
PollStopsFailed(status) == status \in {ERRORED, FAILED}

\* _execute_poll: if iter_result.status == StepStatus.ERRORED
PollStops(status) == status = ERRORED

\* _execute_poll, one iteration of the while loop: the timeout, the
\* request, an ERRORED request, until, while
PollAttempt ==
    /\ spc = "poll"
    /\ attempts' = attempts + 1
    /\ \E elapsed \in BOOLEAN :
          /\ attempts >= MaxAttempts => elapsed
          /\ IF elapsed
             THEN /\ sr' = FinishStep([sr EXCEPT !.poll_attempts = attempts + 1],
                             IF current_step.on_timeout = "fail"
                             THEN FAILED ELSE PASSED,
                             IF current_step.on_timeout = "fail"
                             THEN <<"Polling timed out">>
                             ELSE <<"Polling timed out (continuing)">>)
                  /\ spc' = "returned"
                  /\ UNCHANGED <<engine, log>>
             ELSE \E outcome \in RequestOutcomes, body \in Bodies :
                     LET x == ExecuteRequest(sr, engine, outcome, body, Len(log) + 1)
                         stops == ~x.raised /\ PollStops(x.sr.status)
                         checks_until == ~x.raised /\ ~stops /\ current_step.poll_until
                         until_met == checks_until /\
                                      CheckPollCondition({"done"}, x.sr.response_body)
                         checks_while == /\ ~x.raised /\ ~stops /\ ~until_met
                                         /\ current_step.poll_while
                         while_over == checks_while /\
                                       ~CheckPollCondition({"pending"},
                                                           x.sr.response_body)
                         counted == [x.sr EXCEPT !.poll_attempts = attempts + 1]
                     IN /\ engine' = x.engine
                        /\ log' = Append(log, [x.entry EXCEPT
                                                  !.until_checked = checks_until,
                                                  !.while_checked = checks_while])
                        /\ IF x.raised
                           THEN sr' = Raise(x.sr, "extract") /\ spc' = "returned"
                           ELSE IF stops
                           THEN /\ sr' = FinishStep(counted, ERRORED,
                                                    x.sr.error_message)
                                /\ spc' = "returned"
                           ELSE IF until_met \/ while_over
                           THEN /\ sr' = FinishStep(counted, PASSED, NoMessage)
                                /\ spc' = "returned"
                           ELSE sr' = x.sr /\ spc' = "poll"
    /\ UNCHANGED <<libVars, graphVars, execVars, threadVars, current_step, collected>>

\* execute(), the main loop after _execute_step has returned: completed
\* and abort (lines 133-140)
StepHandled ==
    /\ spc = "returned"
    /\ \E read \in IF sr.status = FAILED THEN MainPolicies ELSE {Unread} :
          /\ policy' = IF sr.status = FAILED THEN <<read>> ELSE policy
          /\ abort' = (sr.status = FAILED /\ Aborts(read))
          /\ completed' =
                IF sr.status = PASSED THEN {1}
                ELSE IF sr.status = FAILED /\ ~Aborts(read) /\ read.ignore_failure
                THEN {1}
                ELSE completed
    /\ spc' = "handled"
    /\ UNCHANGED <<libVars, graphVars, threadVars, workflow, on_step_complete, pc, idx,
                   execution_order, result, calls, notified, client,
                   current_step, sr, engine, collected, attempts, log>>

StepNext ==
    \/ StepStart
    \/ SingleRequest
    \/ LoopIteration
    \/ PollAttempt
    \/ StepHandled

SpecStep == StepInit /\ [][StepNext]_vars

\* ----------------------------------------------------------------------
\* SpecGraph: a graph built by add_step and queried
\* ----------------------------------------------------------------------
\* The steps handed to add_step: a name not yet registered (step names are
\* unique within a workflow) and a depends_on over the names, registered or
\* not, itself included.
GraphSteps ==
    {Step(n, d) : n \in 1..MaxNodes, d \in SUBSET (1..MaxNodes)}

GraphInit ==
    /\ graph = EmptyGraph
    /\ op = "init"
    /\ out = Returned(<<>>)
    /\ LibIdle
    /\ workflow = [setup |-> <<>>, steps |-> <<>>, teardown |-> <<>>]
    /\ on_step_complete = FALSE
    /\ ExecIdle
    /\ ThreadsIdle
    /\ StepIdle

\* A query leaves the graph as it was: building goes on from the states
\* that building reached, and each of them is queried.
Building == op \in {"init", "add_step"}

GAddStep ==
    /\ Building
    /\ \E step \in GraphSteps :
        /\ step.name \notin NodeSet(graph)
        /\ graph' = AddStep(graph, step)
        /\ op' = "add_step"
        /\ out' = Returned(<<>>)
    /\ UNCHANGED <<libVars, stepVars, execVars, threadVars>>

GValidate ==
    /\ Building
    /\ \E o \in Validate(graph) :
        /\ op' = "validate"
        /\ out' = o
    /\ UNCHANGED <<libVars, stepVars, graph, execVars, threadVars>>

GGetExecutionOrder ==
    /\ Building
    /\ \E o \in GetExecutionOrder(graph) :
        /\ op' = "get_execution_order"
        /\ out' = o
    /\ UNCHANGED <<libVars, stepVars, graph, execVars, threadVars>>

GGetParallelGroups ==
    /\ Building
    /\ \E o \in GetParallelGroups(graph) :
        /\ op' = "get_parallel_groups"
        /\ out' = o
    /\ UNCHANGED <<libVars, stepVars, graph, execVars, threadVars>>

GraphNext ==
    \/ GAddStep
    \/ GValidate
    \/ GGetExecutionOrder
    \/ GGetParallelGroups

SpecGraph == GraphInit /\ [][GraphNext]_vars

\* ----------------------------------------------------------------------
\* SpecValidator: ResponseValidator.validate called on responses
\* ----------------------------------------------------------------------
\* Longest expect.custom list.
MaxChecks == 2

\* Responses: the status code; the header h1 (0 when it is not sent; h2 is
\* never sent); the body {"id": id, "items": items, "name": "abc"} with
\* id 0 for null and items -1 for a value that is no list, else the length
\* of the list; the response time.
Responses ==
    [status : {200, 404}, h1 : {0, 1}, id : {0, 1}, items : {-1, 0, 1},
     time_ms : {1, 2}]

\* The custom checks of the expectations.
CustomChecks == {"response.status == 200", "response.body.id > 0"}

\* Expectations: status absent or [200, 201]; headers {h1: 1},
\* {h2: 1, h1: 1} or none; body keys id: 1, items: {"${length}": {"$gte":
\* 1}} and name: {"$contains": "x"} ("miss") or {"$contains": 5}
\* ("nonstr"); response_time_ms 1 or None; custom checks.
Expects ==
    [status : {[kind |-> "absent", values |-> {}],
               [kind |-> "list", values |-> {200, 201}]},
     headers : {<<>>, <<"h1">>, <<"h2", "h1">>},
     body : [id : {"absent", "value"}, items : {"absent", "length"},
             name : {"absent", "miss", "nonstr"}],
     response_time_ms : {"none", "int"},
     custom : UNION {[1..n -> CustomChecks] : n \in 0..MaxChecks}]

\* ExpectationError(expectation, ...), with the check it comes from
ExpectationError(category, expectation) ==
    [category |-> category, expectation |-> expectation]

\* self.errors = []
FreshErrors(errors) == <<>>

\* self.errors.append(...) for each failure a check found: what a short
\* circuit would do instead
AppendFirstOnly(errors, more) == IF errors = <<>> THEN more ELSE errors

\* self.errors.append(...) for each failure a check found
AppendErrors(errors, more) == errors \o more

\* expect.get("status", [200]), an int made a list
ExpectedStatus(ex) ==
    IF ex.status.kind = "absent" THEN {200} ELSE ex.status.values

StatusErrors(resp, ex) ==
    IF resp.status \notin ExpectedStatus(ex)
    THEN <<ExpectationError("status", "status")>>
    ELSE <<>>

\* _validate_value for an expected value that is no string, dict or list
\* (0 stands for None): direct comparison
ValidateValue(actual, expected) == actual = expected

\* response_headers.get(header_name) or response_headers.get(header_name.lower())
HeaderOf(resp, header_name) == IF header_name = "h1" THEN resp.h1 ELSE 0

HeaderErrors(resp, ex) ==
    LET failed == SelectSeq(ex.headers,
                     LAMBDA header_name : ~ValidateValue(HeaderOf(resp, header_name), 1))
    IN [i \in 1..Len(failed) |-> ExpectationError("headers", failed[i])]

\* _validate_special_value for {"$gte": threshold} on a number
ValidateSpecialValue(actual, threshold) == actual >= threshold

\* _validate_body over the keys of expect.body in their order (id, items,
\* name): the failures appended, and whether a TypeError leaves validate
\* ("x" in "abc" is False, 5 in "abc" raises)
ValidateBody(resp, ex) ==
    LET id == IF ex.body.id = "value" /\ ~ValidateValue(resp.id, 1)
              THEN <<ExpectationError("body", "body.id")>> ELSE <<>>
        items == IF /\ ex.body.items = "length"
                    /\ resp.items >= 0
                    /\ ~ValidateSpecialValue(resp.items, 1)
                 THEN <<ExpectationError("body", "body.items.length")>> ELSE <<>>
        name == IF ex.body.name = "miss"
                THEN <<ExpectationError("body", "body.name")>> ELSE <<>>
    IN [errors |-> id \o items \o name, raised |-> ex.body.name = "nonstr"]

TimeErrors(resp, ex) ==
    IF ex.response_time_ms = "int" /\ resp.time_ms > 1
    THEN <<ExpectationError("response_time_ms", "response_time_ms")>>
    ELSE <<>>

\* _evaluate_custom_check: the expression with response.status and
\* response.body.id substituted, evaluated; an exception ("None > 0") is
\* False
EvaluateCustomCheck(check_expr, resp) ==
    IF check_expr = "response.status == 200" THEN resp.status = 200
    ELSE resp.id > 0

CustomErrors(resp, ex) ==
    LET failed == SelectSeq(ex.custom,
                     LAMBDA check_expr : ~EvaluateCustomCheck(check_expr, resp))
    IN [i \in 1..Len(failed) |-> ExpectationError("custom", failed[i])]

\* validate(): self.errors after the call, and the list returned unless
\* the body check raised
ValidateResponse(self, resp, ex) ==
    LET status == AppendErrors(FreshErrors(self.errors), StatusErrors(resp, ex))
        headers == AppendErrors(status, HeaderErrors(resp, ex))
        checked == ValidateBody(resp, ex)
        body == AppendErrors(headers, checked.errors)
        time == AppendErrors(body, TimeErrors(resp, ex))
        custom == AppendErrors(time, CustomErrors(resp, ex))
    IN IF checked.raised
       THEN [validator |-> [errors |-> body],
             validated |-> [kind |-> "raised", errors |-> <<>>]]
       ELSE [validator |-> [errors |-> custom],
             validated |-> [kind |-> "returned", errors |-> custom]]

ValidatorInit ==
    /\ ProgramIdle
    /\ ExprIdle
    /\ ParserIdle
    /\ CollectorIdle
    /\ PollIdle
    /\ StoreIdle
    /\ validator = [errors |-> <<>>]
    /\ expect \in Expects
    /\ response = NoResponse
    /\ validated = [kind |-> "none", errors |-> <<>>]

\* one call of validate on the validator, with any response
ValidateCall ==
    /\ \E resp \in Responses :
          LET v == ValidateResponse(validator, resp, expect)
          IN /\ response' = resp
             /\ validator' = v.validator
             /\ validated' = v.validated
    /\ UNCHANGED <<graphVars, execVars, threadVars, stepVars, pollVars,
                   storeVars, exprVars,
                   parserVars, collectorVars, expect>>

ValidatorNext == ValidateCall

SpecValidator == ValidatorInit /\ [][ValidatorNext]_vars

\* ----------------------------------------------------------------------
\* SpecExpr: ExpressionEngine.evaluate called on values
\* ----------------------------------------------------------------------
\* Longest string given to evaluate.
MaxLen == 5

\* Strings are sequences of characters; "x" is the one letter, so x, xx,
\* ... are the variable names and the other text.
Chars == {"$", "{", "}", "x"}
Strings == UNION {[1..n -> Chars] : n \in 0..MaxLen}

\* A Python value: its type, its string form str(value) (for a str the
\* string itself), and for a list or a dict its keys and items.
Scalar(type, val) == [type |-> type, val |-> val, keys |-> <<>>, items |-> <<>>]
Str(val) == Scalar("str", val)
Int5 == Scalar("int", <<"5">>)
PyNone == Scalar("NoneType", <<"N", "o", "n", "e">>)
PyTrue == Scalar("bool", <<"T", "r", "u", "e">>)
PyList(items) == [type |-> "list", val |-> <<>>, keys |-> <<>>, items |-> items]
PyDict(keys, items) == [type |-> "dict", val |-> <<>>, keys |-> keys, items |-> items]

\* "${x}", "x${x}" and "x"
Templates ==
    {Str(<<"$", "{", "x", "}">>), Str(<<"x", "$", "{", "x", "}">>), Str(<<"x">>)}

\* The values given to evaluate: every string, the other scalars, and lists
\* and dicts of templates and scalars, one of them nested.
Values ==
    {Str(val) : val \in Strings}
    \cup {Int5, PyNone}
    \cup {PyList(<<>>)}
    \cup {PyList(<<a>>) : a \in Templates \cup {Int5}}
    \cup {PyList(<<a, b>>) : a \in Templates, b \in Templates \cup {Int5}}
    \cup {PyDict(<<"k">>, <<a>>) : a \in Templates \cup {Int5}}
    \cup {PyDict(<<"k">>, <<PyList(<<a>>)>>) : a \in Templates}

\* The context: whether x is a key of it and x's value, and whether
\* "variables" is a key of it, holding x or not.
Missing == [has |-> FALSE, value |-> PyNone]
Bound(v) == [has |-> TRUE, value |-> v]
Contexts ==
    [top : {Missing} \cup {Bound(v) : v \in {Int5, PyNone, PyTrue, Str(<<"x">>),
                                            Str(<<"$", "{", "x", "}">>)}},
     variables : {Missing, Bound(Int5)}]

\* the outcome of an evaluation
Evaluated(v) == [kind |-> "returned", value |-> v]
ExpressionError == [kind |-> "raised", value |-> PyNone]

\* the first "}" of s at or after position from, 0 when there is none
FirstClose(s, from) ==
    IF \E j \in from..Len(s) : s[j] = "}"
    THEN CHOOSE j \in from..Len(s) : s[j] = "}" /\ \A k \in from..(j - 1) : s[k] # "}"
    ELSE 0

\* VARIABLE_PATTERN \$\{([^}]+)\} matches s at position i
MatchAt(s, i) ==
    /\ i + 1 <= Len(s)
    /\ s[i] = "$"
    /\ s[i + 1] = "{"
    /\ FirstClose(s, i + 2) > i + 2

\* re search: the first position at or after from where the pattern
\* matches, 0 when there is none
Search(s, from) ==
    IF \E i \in from..Len(s) : MatchAt(s, i)
    THEN CHOOSE i \in from..Len(s) : MatchAt(s, i) /\ \A k \in from..(i - 1) : ~MatchAt(s, k)
    ELSE 0

\* VARIABLE_PATTERN.fullmatch(value)
FullMatch(s) == MatchAt(s, 1) /\ FirstClose(s, 3) = Len(s)

\* match.group(1) of the match at position i
Group(s, i) == SubSeq(s, i + 2, FirstClose(s, i + 2) - 1)

\* _do_evaluate_expression for an expression none of the patterns for
\* built-ins matches: the context, then its variables, else ExpressionError
DoEvaluateExpression(ctx, expr) ==
    IF expr = <<"x">> /\ ctx.top.has THEN Evaluated(ctx.top.value)
    ELSE IF expr = <<"x">> /\ ctx.variables.has THEN Evaluated(ctx.variables.value)
    ELSE ExpressionError

\* replace_match: str(result) if result is not None else "", without the
\* test for None
StringFormPlain(found) == found.val

\* replace_match: str(result) if result is not None else ""
StringForm(found) == IF found.type = "NoneType" THEN <<>> ELSE found.val

\* VARIABLE_PATTERN.sub(replace_match, value) from position from on
RECURSIVE Sub(_, _, _)
Sub(ctx, s, from) ==
    LET i == Search(s, from)
    IN IF i = 0 THEN Evaluated(Str(SubSeq(s, from, Len(s))))
       ELSE LET found == DoEvaluateExpression(ctx, Group(s, i))
                rest == Sub(ctx, s, FirstClose(s, i + 2) + 1)
            IN IF found.kind = "raised" \/ rest.kind = "raised" THEN ExpressionError
               ELSE Evaluated(Str(SubSeq(s, from, i - 1)
                                    \o StringForm(found.value) \o rest.value.val))

\* _evaluate_string
EvaluateString(ctx, s) ==
    IF FullMatch(s) THEN DoEvaluateExpression(ctx, Group(s, 1)) ELSE Sub(ctx, s, 1)

\* evaluate
RECURSIVE Evaluate(_, _)
Evaluate(ctx, v) ==
    IF v.type = "str" THEN EvaluateString(ctx, v.val)
    ELSE IF v.type \in {"dict", "list"}
    THEN LET each == [i \in DOMAIN v.items |-> Evaluate(ctx, v.items[i])]
         IN IF \E i \in DOMAIN each : each[i].kind = "raised" THEN ExpressionError
            ELSE Evaluated([v EXCEPT
                              !.items = [i \in DOMAIN each |-> each[i].value]])
    ELSE Evaluated(v)

ExprInit ==
    /\ ProgramIdle
    /\ ValidatorIdle
    /\ ParserIdle
    /\ CollectorIdle
    /\ PollIdle
    /\ StoreIdle
    /\ value \in Values
    /\ context \in Contexts
    /\ evaluated = [kind |-> "none", value |-> PyNone]

\* one call of engine.evaluate(value)
EvaluateCall ==
    /\ evaluated.kind = "none"
    /\ evaluated' = Evaluate(context, value)
    /\ UNCHANGED <<graphVars, execVars, threadVars, stepVars, pollVars,
                   storeVars, validatorVars,
                   parserVars, collectorVars, value, context>>

ExprNext == EvaluateCall

SpecExpr == ExprInit /\ [][ExprNext]_vars

\* ----------------------------------------------------------------------
\* SpecParser: WorkflowParser.parse_dict called on documents
\* ----------------------------------------------------------------------
\* Step names of a document are 1..MaxNames.
MaxNames == 3

StepNamesOfDocuments == 1..MaxNames

\* What a step of a document says besides its name and depends_on: nothing
\* more ("plain"), no endpoint, an endpoint with the method TRACE, a loop
\* with a count, a loop with only a delay, a poll, a poll with interval 0,
\* a poll with timeout 0, or a loop and a poll together.
Configs ==
    {"plain", "no_endpoint", "method", "loop", "loop_neither", "poll",
     "poll_interval", "poll_timeout", "loop_poll"}

RawStep(name, depends_on, config) ==
    [name |-> name, depends_on |-> depends_on, config |-> config]

\* setup and teardown: no step or one; steps: up to two, each depending on
\* nothing or on one name
OuterLists == {<<>>} \cup {<<RawStep(n, {}, "plain")>> : n \in StepNamesOfDocuments}
MainRawSteps ==
    {RawStep(n, d, "plain") :
        n \in StepNamesOfDocuments,
        d \in {{}} \cup {{m} : m \in StepNamesOfDocuments}}
MainLists ==
    {<<>>} \cup {<<a>> : a \in MainRawSteps}
    \cup {<<a, b>> : a \in MainRawSteps, b \in MainRawSteps}

\* all_steps = workflow.setup + workflow.steps + workflow.teardown
AllSteps(w) == w.setup \o w.steps \o w.teardown

\* the workflow with the config of its step at a position of all_steps set
Configured(w, pos, config) ==
    LET ns == Len(w.setup)
        nm == Len(w.steps)
    IN IF pos <= ns THEN [w EXCEPT !.setup[pos].config = config]
       ELSE IF pos <= ns + nm THEN [w EXCEPT !.steps[pos - ns].config = config]
       ELSE [w EXCEPT !.teardown[pos - ns - nm].config = config]

\* The documents: one workflow "B", after a valid workflow "A" or alone;
\* ParserInit makes at most one of its steps other than plain.
PlainDocuments ==
    [leading : BOOLEAN, setup : OuterLists, steps : MainLists, teardown : OuterLists]


\* What parse_dict comes to: a WorkflowFile with its workflows, or an
\* exception with its attributes and the function that raised it first.
ParserOutcome(kind, raised_in, workflow_name, step_name, field, workflows) ==
    [kind |-> kind, raised_in |-> raised_in, workflow_name |-> workflow_name,
     step_name |-> step_name, field |-> field, workflows |-> workflows]
WorkflowFile(workflows) == ParserOutcome("WorkflowFile", "", "", 0, "", workflows)
WorkflowParseError(raised_in, workflow_name) ==
    ParserOutcome("WorkflowParseError", raised_in, workflow_name, 0, "", <<>>)
WorkflowValidationError(workflow_name, step_name, field) ==
    ParserOutcome("WorkflowValidationError", "_validate_workflow",
                  workflow_name, step_name, field, <<>>)
NotParsed == ParserOutcome("none", "", "", 0, "", <<>>)

\* _parse_step: the WorkflowStep of a step that has an endpoint
ParseStep(raw) ==
    [name |-> raw.name,
     depends_on |-> raw.depends_on,
     method |-> IF raw.config = "method" THEN "TRACE" ELSE "GET",
     loop |-> IF raw.config \in {"loop", "loop_poll"} THEN "count"
              ELSE IF raw.config = "loop_neither" THEN "neither" ELSE "none",
     poll |-> IF raw.config \in {"poll", "loop_poll"} THEN "ok"
              ELSE IF raw.config = "poll_interval" THEN "interval"
              ELSE IF raw.config = "poll_timeout" THEN "timeout" ELSE "none"]

ParseSteps(raws) == [i \in DOMAIN raws |-> ParseStep(raws[i])]

\* _parse_workflow
ParseWorkflow(name, raw) ==
    IF \E i \in DOMAIN AllSteps(raw) : AllSteps(raw)[i].config = "no_endpoint"
    THEN WorkflowParseError("_parse_workflow", name)
    ELSE WorkflowFile(<<[name |-> name, setup |-> ParseSteps(raw.setup),
                         steps |-> ParseSteps(raw.steps),
                         teardown |-> ParseSteps(raw.teardown)]>>)

\* _validate_workflow without its first loop
DuplicateNamesNone(all_steps) == {}

\* _validate_workflow: the positions of all_steps whose name an earlier
\* step has
DuplicateNames(all_steps) ==
    {i \in DOMAIN all_steps : \E j \in 1..(i - 1) : all_steps[j].name = all_steps[i].name}

\* _validate_step: the field the step is rejected for, "" when it is not
ValidateStep(step) ==
    IF step.method # "GET" THEN "endpoint"
    ELSE IF step.loop = "neither" THEN "loop"
    ELSE IF step.poll = "interval" THEN "poll.interval"
    ELSE IF step.poll = "timeout" THEN "poll.timeout"
    ELSE ""

Min(S) == CHOOSE m \in S : \A k \in S : m <= k

\* _validate_workflow, and what parse_dict's except clauses make of what
\* it raises: a WorkflowValidationError is raised again, an error of
\* graph.validate() is neither a WorkflowParseError nor a
\* WorkflowValidationError and is wrapped in a WorkflowParseError
ValidateWorkflow(w) ==
    LET all_steps == AllSteps(w)
        duplicates == DuplicateNames(all_steps)
        rejected == {i \in DOMAIN all_steps : ValidateStep(all_steps[i]) # ""}
    IN IF duplicates # {}
       THEN {WorkflowValidationError(w.name, all_steps[Min(duplicates)].name, "")}
       ELSE {IF v.kind # "ok" THEN WorkflowParseError("_validate_workflow", w.name)
             ELSE IF rejected # {}
             THEN WorkflowValidationError(w.name, all_steps[Min(rejected)].name,
                                          ValidateStep(all_steps[Min(rejected)]))
             ELSE WorkflowFile(<<w>>)
             : v \in Validate(AddSteps(EmptyGraph, w.steps))}

\* the valid workflow "A" that comes first in some documents
LeadingWorkflow ==
    [name |-> "A", setup |-> <<>>,
     steps |-> <<ParseStep(RawStep(1, {}, "plain"))>>, teardown |-> <<>>]

\* parse_dict: every outcome (the dict and set iterations of
\* graph.validate() decide which error it raises)
ParseDict(doc) ==
    LET before == IF doc.leading THEN <<LeadingWorkflow>> ELSE <<>>
        made == ParseWorkflow("B", doc)
    IN IF made.kind # "WorkflowFile" THEN {made}
       ELSE {IF v.kind = "WorkflowFile" THEN WorkflowFile(before \o v.workflows) ELSE v
             : v \in ValidateWorkflow(made.workflows[1])}

ParserInit ==
    /\ ProgramIdle
    /\ ValidatorIdle
    /\ ExprIdle
    /\ CollectorIdle
    /\ PollIdle
    /\ StoreIdle
    /\ \E w \in PlainDocuments :
          \/ document = w
          \/ \E pos \in 1..Len(AllSteps(w)), config \in Configs \ {"plain"} :
                document = Configured(w, pos, config)
    /\ parsed = NotParsed

\* one call of parse_dict(data)
ParseDictCall ==
    /\ parsed.kind = "none"
    /\ parsed' \in ParseDict(document)
    /\ UNCHANGED <<graphVars, execVars, threadVars, stepVars, pollVars,
                   storeVars, validatorVars,
                   exprVars, collectorVars, document>>

ParserNext == ParseDictCall

SpecParser == ParserInit /\ [][ParserNext]_vars

\* ----------------------------------------------------------------------
\* SpecCollector: threads call record_test on one DataCollector
\* ----------------------------------------------------------------------
\* record_test calls of one thread.
MaxRecords == 2

\* the endpoint keys of the recorded results
EndpointKeys == {"GET /a", "GET /b"}

\* TestRunInfo.create
NewRunInfo ==
    [total_tests |-> 0, passed |-> 0, failed |-> 0, errored |-> 0, skipped |-> 0,
     endpoints |-> <<>>, test_results |-> <<>>]

\* a thread outside record_test
Waiting(done) ==
    [pc |-> "idle", done |-> done, status |-> "", endpoint |-> "", total |-> 0]

CollectorIdleState == [lock |-> 0, run_info |-> NewRunInfo]

CollectorInit ==
    /\ ProgramIdle
    /\ ValidatorIdle
    /\ ExprIdle
    /\ ParserIdle
    /\ PollIdle
    /\ StoreIdle
    /\ collector = CollectorIdleState
    /\ recorders = [t \in Threads |-> Waiting(0)]

\* with self._lock entered without waiting for the lock
AcquireUnlocked(lock) == TRUE

\* with self._lock: the lock is free
Acquire(lock) == lock = 0

\* record_test up to the lock: the TestCaseResult is created, its status
\* from the check results, its endpoint from the case
RCreate(t) ==
    /\ recorders[t].pc = "idle"
    /\ recorders[t].done < MaxRecords
    /\ \E status \in {PASSED, FAILED, ERRORED}, endpoint \in EndpointKeys :
          recorders' = [recorders EXCEPT ![t].pc = "created", ![t].status = status,
                                         ![t].endpoint = endpoint]
    /\ UNCHANGED collector

RAcquire(t) ==
    /\ recorders[t].pc = "created"
    /\ Acquire(collector.lock)
    /\ collector' = [collector EXCEPT !.lock = t]
    /\ recorders' = [recorders EXCEPT ![t].pc = "locked"]

\* add_result: self.test_results.append(result), and total_tests read
RAppend(t) ==
    /\ recorders[t].pc = "locked"
    /\ collector' = [collector EXCEPT !.run_info.test_results =
                        Append(@, [thread |-> t, status |-> recorders[t].status])]
    /\ recorders' = [recorders EXCEPT ![t].pc = "appended",
                                      ![t].total = collector.run_info.total_tests]

\* add_result: total_tests written, the counter of the status incremented
RCount(t) ==
    /\ recorders[t].pc = "appended"
    /\ collector' =
          [collector EXCEPT
             !.run_info.total_tests = recorders[t].total + 1,
             !.run_info.passed = IF recorders[t].status = PASSED THEN @ + 1 ELSE @,
             !.run_info.failed = IF recorders[t].status = FAILED THEN @ + 1 ELSE @,
             !.run_info.errored = IF recorders[t].status = ERRORED THEN @ + 1 ELSE @,
             !.run_info.skipped = IF recorders[t].status = SKIPPED THEN @ + 1 ELSE @]
    /\ recorders' = [recorders EXCEPT ![t].pc = "counted"]

\* add_result: the EndpointSummary of the key, created when the key is
\* new, counts the result
REndpoint(t) ==
    /\ recorders[t].pc = "counted"
    /\ LET key == recorders[t].endpoint
           endpoints == collector.run_info.endpoints
       IN collector' = [collector EXCEPT !.run_info.endpoints =
                           [k \in DOMAIN endpoints \cup {key} |->
                               IF k = key
                               THEN (IF key \in DOMAIN endpoints THEN endpoints[key] ELSE 0) + 1
                               ELSE endpoints[k]]]
    /\ recorders' = [recorders EXCEPT ![t].pc = "added"]

\* the end of the with block: the lock is released, record_test returns
RRelease(t) ==
    /\ recorders[t].pc = "added"
    /\ collector' = [collector EXCEPT !.lock = 0]
    /\ recorders' = [recorders EXCEPT ![t] = Waiting(recorders[t].done + 1)]

CollectorStep(t) ==
    \/ RCreate(t)
    \/ RAcquire(t)
    \/ RAppend(t)
    \/ RCount(t)
    \/ REndpoint(t)
    \/ RRelease(t)

CollectorNext ==
    /\ \E t \in Threads : CollectorStep(t)
    /\ UNCHANGED <<graphVars, execVars, threadVars, stepVars, pollVars,
                   storeVars, validatorVars,
                   exprVars, parserVars>>

SpecCollector == CollectorInit /\ [][CollectorNext]_vars

\* ----------------------------------------------------------------------
\* SpecPoll: _execute_poll against the clock
\* ----------------------------------------------------------------------
\* The largest poll.timeout, in ticks of the clock.
MaxTimeout == 4

\* PollConfigs that pass _validate_step: interval > 0 and timeout > 0
PollConfigs ==
    [interval : 1..MaxTimeout, timeout : 1..MaxTimeout,
     initial_delay : 0..MaxTimeout, on_timeout : {"fail", "continue"}]

\* start_time = time.time(), attempts = 0
PollStarting ==
    [pc |-> "start", clock |-> 0, attempts |-> 0, requests |-> 0,
     status |-> RUNNING, poll_attempts |-> 0]

PollInit ==
    /\ ProgramIdle
    /\ ValidatorIdle
    /\ ExprIdle
    /\ ParserIdle
    /\ CollectorIdle
    /\ StoreIdle
    /\ poll_config \in PollConfigs
    /\ polling = PollStarting

\* a sleep during which the clock stands still
SleepNoAdvance(clock, seconds) == {clock}

\* time.sleep(seconds): the clock after it, the seconds having passed and
\* possibly a tick more
Sleep(clock, seconds) == {clock + seconds, clock + seconds + 1}

\* if poll.initial_delay > 0: time.sleep(poll.initial_delay)
PollInitialDelay ==
    /\ polling.pc = "start"
    /\ \E now \in IF poll_config.initial_delay > 0
                  THEN Sleep(polling.clock, poll_config.initial_delay)
                  ELSE {polling.clock} :
          polling' = [polling EXCEPT !.pc = "loop", !.clock = now]
    /\ UNCHANGED poll_config

\* result.poll_attempts = attempts; result.finish(status, ...); return result
PollReturn(p, status) ==
    [p EXCEPT !.pc = "done", !.status = status, !.poll_attempts = p.attempts]

\* one iteration of the while loop: attempts += 1, the timeout, the
\* request (which returns, within a tick), what ends the poll (an ERRORED
\* request, until satisfied, while falsified, an exception), or the sleep
\* of poll.interval before the next iteration
PollIteration ==
    /\ polling.pc = "loop"
    /\ polling.requests <= MaxTimeout
    /\ LET counted == [polling EXCEPT !.attempts = @ + 1]
       IN IF polling.clock >= poll_config.timeout
          THEN polling' = PollReturn(counted,
                             IF poll_config.on_timeout = "fail" THEN FAILED ELSE PASSED)
          ELSE \E took \in 0..1,
                  ends \in {"errored", "until", "while", "raised", "no"} :
                  LET requested == [counted EXCEPT !.requests = @ + 1,
                                                   !.clock = @ + took]
                  IN IF ends = "errored"
                     THEN polling' = PollReturn(requested, ERRORED)
                     ELSE IF ends \in {"until", "while"}
                     THEN polling' = PollReturn(requested, PASSED)
                     ELSE IF ends = "raised"
                     THEN polling' = [requested EXCEPT !.pc = "done",
                                                       !.status = ERRORED]
                     ELSE \E now \in Sleep(requested.clock, poll_config.interval) :
                             polling' = [requested EXCEPT !.clock = now]
    /\ UNCHANGED poll_config

PollNext ==
    /\ \/ PollInitialDelay
       \/ PollIteration
    /\ UNCHANGED <<graphVars, execVars, threadVars, stepVars, validatorVars,
                   exprVars, parserVars, collectorVars, storeVars>>

\* the thread of the call keeps running: every request returns, every
\* sleep ends
SpecPoll == PollInit /\ [][PollNext]_vars /\ WF_vars(PollNext)

\* ----------------------------------------------------------------------
\* SpecStore: an IDStore under store, mark_deleted and clear
\* ----------------------------------------------------------------------
\* max_ids_per_type of the store.
MaxIds == 1

\* StoredIDs alive in the store at once.
MaxStored == 3

IdValues == {1, 2}
ResourceTypes == {"T", "U"}
ParameterNames == {"p", "q"}
Endpoints == {"e"}
FieldNames == {"id"}

\* the ExtractedIDs handed to store (parameter_name "": None)
ExtractedIDs ==
    [value : IdValues, resource_type : ResourceTypes,
     parameter_name : ParameterNames \cup {""}, endpoint : Endpoints,
     field_name : FieldNames]

\* IDStore.__init__: a StoredID is its position in `objects`, the lists
\* hold these references
NewIDStore ==
    [objects |-> <<>>, all_ids |-> <<>>,
     by_resource_type |-> [k \in ResourceTypes |-> <<>>],
     by_parameter |-> [k \in ParameterNames |-> <<>>],
     by_endpoint |-> [k \in Endpoints |-> <<>>],
     by_field_name |-> [k \in FieldNames |-> <<>>]]

StoreInit ==
    /\ ProgramIdle
    /\ ValidatorIdle
    /\ ExprIdle
    /\ ParserIdle
    /\ CollectorIdle
    /\ PollIdle
    /\ id_store = NewIDStore
    /\ store_op = [name |-> "init", resource_type |-> ""]

\* IDStore._enforce_limit: while len(ids) > self._max_ids: ids.pop(0)
EnforceLimit(ids) ==
    IF Len(ids) > MaxIds THEN SubSeq(ids, Len(ids) - MaxIds + 1, Len(ids)) ELSE ids

\* index[key].append(stored); self._enforce_limit(index[key])
Indexed(index, key, stored) ==
    [index EXCEPT ![key] = EnforceLimit(Append(@, stored))]

\* IDStore.store
Store(s, extracted_id) ==
    LET stored == Len(s.objects) + 1
    IN [objects |-> Append(s.objects, [extracted_id |-> extracted_id,
                                        is_deleted |-> FALSE]),
        all_ids |-> Append(s.all_ids, stored),
        by_resource_type |->
            Indexed(s.by_resource_type, extracted_id.resource_type, stored),
        by_parameter |->
            IF extracted_id.parameter_name # ""
            THEN Indexed(s.by_parameter, extracted_id.parameter_name, stored)
            ELSE s.by_parameter,
        by_endpoint |-> Indexed(s.by_endpoint, extracted_id.endpoint, stored),
        by_field_name |->
            Indexed(s.by_field_name, extracted_id.field_name, stored)]

\* IDStore.mark_deleted(value, resource_type)
MarkDeleted(s, v, resource_type) ==
    [s EXCEPT !.objects =
        [i \in DOMAIN s.objects |->
            IF /\ i \in Range(s.all_ids)
               /\ s.objects[i].extracted_id.value = v
               /\ s.objects[i].extracted_id.resource_type = resource_type
            THEN [s.objects[i] EXCEPT !.is_deleted = TRUE]
            ELSE s.objects[i]]]

\* the references of `ids` that are not in ids_to_remove
Without(ids, ids_to_remove) == SelectSeq(ids, LAMBDA i : i \notin ids_to_remove)

\* IDStore.clear(resource_type), resource_type given
Clear(s, resource_type) ==
    LET ids_to_remove == Range(s.by_resource_type[resource_type])
    IN [s EXCEPT
          !.by_resource_type = [@ EXCEPT ![resource_type] = <<>>],
          !.by_parameter = [k \in DOMAIN @ |-> Without(@[k], ids_to_remove)],
          !.by_endpoint = [k \in DOMAIN @ |-> Without(@[k], ids_to_remove)],
          !.by_field_name = [k \in DOMAIN @ |-> Without(@[k], ids_to_remove)],
          !.all_ids = Without(@, ids_to_remove)]

\* IDStore._get_valid_ids (no ttl)
GetValidIds(s, ids) == {i \in Range(ids) : ~s.objects[i].is_deleted}

\* IDStore.get_for_parameter: the StoredIDs one of whose values it returns
\* (the parameter, then the field of that name)
GetForParameter(s, param_name) ==
    LET by_parameter == IF param_name \in DOMAIN s.by_parameter
                        THEN GetValidIds(s, s.by_parameter[param_name]) ELSE {}
        by_field_name == IF param_name \in DOMAIN s.by_field_name
                         THEN GetValidIds(s, s.by_field_name[param_name]) ELSE {}
    IN IF by_parameter # {} THEN by_parameter ELSE by_field_name

SStore ==
    /\ Len(id_store.objects) < MaxStored
    /\ \E extracted_id \in ExtractedIDs :
          /\ id_store' = Store(id_store, extracted_id)
          /\ store_op' = [name |-> "store",
                          resource_type |-> extracted_id.resource_type]

SMarkDeleted ==
    /\ \E v \in IdValues, resource_type \in ResourceTypes :
          /\ id_store' = MarkDeleted(id_store, v, resource_type)
          /\ store_op' = [name |-> "mark_deleted", resource_type |-> resource_type]

\* clear(): every index and the list are emptied
SClearAll ==
    /\ id_store' = NewIDStore
    /\ store_op' = [name |-> "clear", resource_type |-> ""]

SClear ==
    /\ \E resource_type \in ResourceTypes :
          /\ id_store' = Clear(id_store, resource_type)
          /\ store_op' = [name |-> "clear", resource_type |-> resource_type]

StoreNext ==
    /\ \/ SStore
       \/ SMarkDeleted
       \/ SClearAll
       \/ SClear
    /\ UNCHANGED <<graphVars, execVars, threadVars, stepVars, validatorVars,
                   exprVars, parserVars, collectorVars, pollVars>>

SpecStore == StoreInit /\ [][StoreNext]_vars

\* ----------------------------------------------------------------------
\* Properties of the DependencyGraph (SpecGraph)
\* ----------------------------------------------------------------------
\* The vocabulary of the properties, read off the registered steps
\* themselves (WorkflowStep.depends_on), not off the graph's edge maps.
DependsOnOf(g, n) == g.nodes[n].depends_on

RECURSIVE ReachFrom(_, _, _)
ReachFrom(g, frontier, seen) ==
    LET next == (UNION {DependsOnOf(g, x) : x \in frontier} \cap NodeSet(g)) \ seen
    IN IF next = {} THEN seen ELSE ReachFrom(g, next, seen \cup next)

\* the registered steps n depends on, directly or transitively
TransitiveDeps(g, n) == ReachFrom(g, {n}, {})

HasMissing(g) ==
    \E n \in NodeSet(g) : \E d \in DependsOnOf(g, n) : d \notin NodeSet(g)

HasCycle(g) == \E n \in NodeSet(g) : n \in TransitiveDeps(g, n)

Placed(order, i) == {order[j] : j \in 1..(i - 1)}

\* C7 (topological soundness): on a graph whose dependencies are all
\* registered and that has no cycle, get_execution_order() returns a list
\* holding every registered name exactly once, in which each step comes
\* after every step it depends on, directly or transitively.
C7_TopologicalSoundness ==
    (op = "get_execution_order" /\ ~HasMissing(graph) /\ ~HasCycle(graph)) =>
        /\ out.kind = "ok"
        /\ Len(out.order) = Cardinality(NodeSet(graph))
        /\ Range(out.order) = NodeSet(graph)
        /\ \A i \in DOMAIN out.order :
              TransitiveDeps(graph, out.order[i]) \subseteq Placed(out.order, i)

\* an order of three steps returned for a chain: a step with a transitive
\* dependency that is not a direct one
C7_Witness ==
    /\ op = "get_execution_order"
    /\ out.kind = "ok"
    /\ Len(out.order) = MaxNodes
    /\ \E a \in NodeSet(graph) :
          TransitiveDeps(graph, a) \ DependsOnOf(graph, a) # {}

\* C8 (deterministic tie-break): at every position of the returned list
\* stands the smallest name among the steps not yet placed whose
\* dependencies are all placed earlier; the list is therefore the same
\* whatever order the steps were added, and the dicts and sets iterated, in.
C8_DeterministicTieBreak ==
    (op = "get_execution_order" /\ out.kind = "ok") =>
        /\ \A i \in DOMAIN out.order :
              LET ready == {n \in NodeSet(graph) \ Placed(out.order, i) :
                               DependsOnOf(graph, n) \subseteq Placed(out.order, i)}
              IN /\ out.order[i] \in ready
                 /\ \A n \in ready : out.order[i] <= n
        /\ GetExecutionOrder(graph) = {out}

\* two steps ready at once (2 and 3), and a step placed after a step of a
\* greater name because it depends on it (1 after 3)
C8_Witness ==
    /\ op = "get_execution_order"
    /\ out.kind = "ok"
    /\ out.order = <<2, 3, 1>>

\* C9 (cycle reporting): with every dependency registered and a cycle in
\* the graph (a self-dependency included) validate() raises
\* CircularDependencyError, and the cycle it carries is a cycle of the
\* graph: first and last element equal, every element a registered step,
\* each element listing the next in its depends_on; for two steps depending
\* on each other the cycle names both.
C9_CycleReporting ==
    op = "validate" =>
        /\ (~HasMissing(graph) /\ HasCycle(graph)) =>
              out.kind = "CircularDependencyError"
        /\ out.kind = "CircularDependencyError" =>
              /\ Len(out.cycle) >= 2
              /\ out.cycle[1] = out.cycle[Len(out.cycle)]
              /\ Range(out.cycle) \subseteq NodeSet(graph)
              /\ \A i \in 1..(Len(out.cycle) - 1) :
                    out.cycle[i + 1] \in DependsOnOf(graph, out.cycle[i])
              /\ \A a, b \in NodeSet(graph) :
                    (/\ a # b
                     /\ NodeSet(graph) = {a, b}
                     /\ DependsOnOf(graph, a) = {b}
                     /\ DependsOnOf(graph, b) = {a})
                    => {a, b} \subseteq Range(out.cycle)

\* a cycle reported from a walk that entered it through a step outside it
C9_Witness ==
    /\ op = "validate"
    /\ out.kind = "CircularDependencyError"
    /\ Len(out.cycle) = 3
    /\ \E n \in NodeSet(graph) :
          /\ n \notin Range(out.cycle)
          /\ DependsOnOf(graph, n) \cap Range(out.cycle) # {}

\* C10 (validate() outcome classification): validate() raises
\* DependencyNotFoundError exactly when some registered step's depends_on
\* names a step that is not registered (also when the graph has a cycle),
\* CircularDependencyError exactly when nothing is missing and there is a
\* cycle, and returns otherwise; it leaves the graph as it was.
C10_ValidateClassification ==
    /\ [](op = "validate" =>
            /\ out.kind = "DependencyNotFoundError" <=> HasMissing(graph)
            /\ out.kind = "DependencyNotFoundError" =>
                  /\ out.step_name \in NodeSet(graph)
                  /\ out.dependency \in DependsOnOf(graph, out.step_name)
                  /\ out.dependency \notin NodeSet(graph)
            /\ out.kind = "CircularDependencyError" <=>
                  (~HasMissing(graph) /\ HasCycle(graph))
            /\ out.kind = "ok" <=> (~HasMissing(graph) /\ ~HasCycle(graph)))
    /\ [][op' = "validate" => graph' = graph]_vars

\* a missing dependency reported on a graph that also has a cycle
C10_Witness ==
    /\ op = "validate"
    /\ out.kind = "DependencyNotFoundError"
    /\ HasCycle(graph)

\* ----------------------------------------------------------------------
\* Properties of WorkflowExecutor.execute (Spec)
\* ----------------------------------------------------------------------
Names(results) == [i \in DOMAIN results |-> results[i].step_name]
StepNames(steps) == [i \in DOMAIN steps |-> steps[i].name]
TeardownNames == Range(StepNames(workflow.teardown))
SetupNames == Range(StepNames(workflow.setup))
Done == pc = "done"

\* the FAILED result at position i of `results` belongs to a step read
\* with on_failure=ABORT and ignore_failure=false
AbortingAt(results, i) ==
    /\ results[i].status = FAILED
    /\ results[i].step_name \in DOMAIN policy
    /\ policy[results[i].step_name].on_failure = ABORT
    /\ policy[results[i].step_name].ignore_failure = FALSE

\* the FAILED result at position i of setup_results belongs to a step read
\* with ignore_failure=false
UnignoredSetupAt(i) ==
    /\ result.setup_results[i].status = FAILED
    /\ policy[result.setup_results[i].step_name].ignore_failure = FALSE

\* execute() has returned from the setup loop
ReturnedFromSetup ==
    /\ Done
    /\ result.error_message \in {SetupFailedMessage(n) : n \in SetupNames}

\* execute() has returned through `except Exception`
Raised == Done /\ result.status = ERRORED

\* execute() has returned and had reached the main loop
CompletedRun == Done /\ ~ReturnedFromSetup /\ ~Raised

\* C1 (abort propagation): once a main step has ended FAILED with
\* on_failure=ABORT and ignore_failure=false, every later step of the
\* execution order is recorded SKIPPED with the reason "Skipped due to
\* previous failure" and _execute_step (the only place a request is sent
\* from) is never called with it, the results recorded before stay as they
\* are, and the workflow ends FAILED.
C1_AbortPropagation ==
    /\ [](\A i \in DOMAIN result.step_results :
            AbortingAt(result.step_results, i) =>
               /\ \A j \in DOMAIN result.step_results :
                     j > i =>
                        /\ result.step_results[j] =
                              StepResult(execution_order[j], SKIPPED, SkippedMessage)
                        /\ execution_order[j] \notin Range(calls)
               /\ \A j \in 1..i :
                     result.step_results[j].step_name = execution_order[j]
               /\ Done => /\ result.status = FAILED
                          /\ Len(result.step_results) = Len(execution_order))
    /\ [][\A i \in DOMAIN result.step_results :
             /\ i \in DOMAIN result'.step_results
             /\ result'.step_results[i] = result.step_results[i]]_vars

\* the chain 3 <- 2 <- 1 (1 depends on 2, 2 on 3) with 2 failing: 3 PASSED,
\* 2 FAILED, 1 SKIPPED, workflow FAILED
C1_Witness ==
    /\ Done
    /\ execution_order = <<3, 2, 1>>
    /\ Len(result.step_results) = 3
    /\ result.step_results[1].status = PASSED
    /\ AbortingAt(result.step_results, 2)
    /\ result.step_results[3].status = SKIPPED
    /\ result.status = FAILED

\* C2 (teardown unconditionality): when execute() has reached the main
\* loop, every declared teardown step is executed exactly once, in declared
\* order, and its result recorded in teardown_results, whatever the main
\* steps and the earlier teardown steps ended with; a teardown step is
\* executed only once every main step has its result.
C2_TeardownUnconditional ==
    /\ [](CompletedRun =>
            /\ Names(result.teardown_results) = StepNames(workflow.teardown)
            /\ SelectSeq(calls, LAMBDA n : n \in TeardownNames)
                  = StepNames(workflow.teardown))
    /\ [][(calls' # calls /\ calls'[Len(calls')] \in TeardownNames) =>
             /\ Len(result.step_results) = Len(execution_order)
             /\ result'.step_results = result.step_results
             /\ Len(result'.teardown_results) = Len(result.teardown_results) + 1]_vars

\* two teardown steps run after a main phase with an ERRORED step and the
\* abort set, the first teardown step itself FAILED
C2_Witness ==
    /\ Done
    /\ abort
    /\ \E i \in DOMAIN result.step_results :
          result.step_results[i].status = ERRORED
    /\ Len(result.teardown_results) = 2
    /\ result.teardown_results[1].status = FAILED
    /\ Range(Names(result.teardown_results)) \subseteq Range(calls)

\* C3 (no step error prevents teardown): whichever step has failed or
\* errored, in setup, main or teardown, every declared teardown step has
\* been attempted when execute() returns. (Stated for the executions that
\* do not end in `except Exception`.)
C3_TeardownAlwaysAttempted ==
    (Done /\ ~Raised) => TeardownNames \subseteq Range(calls)

\* C4 (setup short-circuit): setup steps run in declared order; a setup
\* step that ends FAILED with ignore_failure=false makes execute() return
\* at once with status FAILED and a message naming the step, no later setup
\* step and no main step executed or recorded; a FAILED setup step with
\* ignore_failure=true does not stop the setup loop.
C4_SetupShortCircuit ==
    /\ \A i \in DOMAIN result.setup_results :
          /\ result.setup_results[i].step_name = workflow.setup[i].name
          /\ UnignoredSetupAt(i) =>
                /\ Done
                /\ result.status = FAILED
                /\ result.error_message =
                      SetupFailedMessage(workflow.setup[i].name)
                /\ Len(result.setup_results) = i
                /\ result.step_results = <<>>
                /\ execution_order = <<>>
                /\ calls = SubSeq(StepNames(workflow.setup), 1, i)
    /\ SelectSeq(calls, LAMBDA n : n \in SetupNames)
          = Names(result.setup_results)
    /\ (/\ pc \notin {"idle", "setup"}
        /\ \A i \in DOMAIN result.setup_results : ~UnignoredSetupAt(i))
       => Len(result.setup_results) = Len(workflow.setup)

\* of three setup steps the first FAILED with ignore_failure=true, the
\* second FAILED with ignore_failure=false: the third and the main step
\* are not run
C4_Witness ==
    /\ Done
    /\ Len(workflow.setup) = 3
    /\ Len(workflow.steps) = 1
    /\ Len(result.setup_results) = 2
    /\ result.setup_results[1].status = FAILED
    /\ ~UnignoredSetupAt(1)
    /\ UnignoredSetupAt(2)
    /\ calls = <<101, 102>>

\* some step without ignore_failure ended FAILED and caused an abort: a
\* setup failure, or a main failure with on_failure=ABORT
AbortCaused ==
    \/ \E i \in DOMAIN result.setup_results : UnignoredSetupAt(i)
    \/ \E i \in DOMAIN result.step_results :
          AbortingAt(result.step_results, i)

NoFailed(results) == \A i \in DOMAIN results : results[i].status # FAILED

\* C5 (workflow status rule): the final status is FAILED exactly when some
\* step without ignore_failure ended FAILED and caused an abort, and PASSED
\* otherwise; a workflow whose only FAILED steps have ignore_failure=true
\* or on_failure=continue ends PASSED. (Stated for the executions that do
\* not end in `except Exception` and in which no teardown step FAILED.)
C5_StatusRule ==
    (Done /\ ~Raised /\ NoFailed(result.teardown_results)) =>
        /\ result.status = FAILED <=> AbortCaused
        /\ ~AbortCaused => result.status = PASSED

\* C6 (teardown failures never flip the status): when no setup step and no
\* main step ended FAILED, so that setup and main yield PASSED, the final
\* status is PASSED also when teardown steps end FAILED, and their results
\* are in teardown_results.
C6_TeardownNeverFlips ==
    (/\ CompletedRun
     /\ ~abort
     /\ NoFailed(result.setup_results)
     /\ NoFailed(result.step_results))
    => /\ result.status = PASSED
       /\ Names(result.teardown_results) = StepNames(workflow.teardown)

MainNames == Range(StepNames(workflow.steps))

\* C11 (main-phase ordering): when the setup loop has not returned, the
\* names in step_results are get_execution_order() of the graph built from
\* workflow.steps, computed once; every main step has exactly one result;
\* and a main step is executed only when the result of every step before
\* it in that order is recorded.
C11_MainPhaseOrdering ==
    /\ [](CompletedRun =>
            /\ Names(result.step_results) = execution_order
            /\ Range(execution_order) = MainNames
            /\ Len(execution_order) = Len(workflow.steps))
    /\ [][(pc = "graph" /\ pc' # "done") =>
             Returned(execution_order') \in
                GetExecutionOrder(AddSteps(EmptyGraph, workflow.steps))]_vars
    /\ [][(pc \in {"main", "teardown", "finish"}) =>
             (execution_order' = execution_order)]_vars
    /\ [][(calls' # calls /\ calls'[Len(calls')] \in MainNames) =>
             /\ Names(result.step_results)
                   = SubSeq(execution_order, 1, Len(result.step_results))
             /\ calls'[Len(calls')]
                   = execution_order[Len(result.step_results) + 1]
             /\ Len(result'.step_results) = Len(result.step_results) + 1]_vars

\* three main steps, 1 depending on 2, run to the end in the order 2, 1, 3
C11_Witness ==
    /\ Done
    /\ ~abort
    /\ calls = <<2, 1, 3>>
    /\ Names(result.step_results) = <<2, 1, 3>>

\* the steps in the groups before group i
Before(groups, i) == UNION {Range(groups[j]) : j \in 1..(i - 1)}

\* C12 (parallel groups): on a graph whose dependencies are all registered
\* and that has no cycle, get_parallel_groups() returns groups that
\* partition the registered steps; the dependencies of a step all lie in
\* earlier groups; a step stands in the earliest group that allows it (the
\* first group, or the group after one holding a dependency of it); every
\* group is sorted by ascending name.
C12_ParallelGroups ==
    (op = "get_parallel_groups" /\ ~HasMissing(graph) /\ ~HasCycle(graph)) =>
        /\ out.kind = "ok"
        /\ UNION {Range(out.order[i]) : i \in DOMAIN out.order} = NodeSet(graph)
        /\ \A i, j \in DOMAIN out.order :
              i # j => Range(out.order[i]) \cap Range(out.order[j]) = {}
        /\ \A i \in DOMAIN out.order :
              /\ out.order[i] # <<>>
              /\ \A a, b \in DOMAIN out.order[i] :
                    a < b => out.order[i][a] < out.order[i][b]
              /\ \A n \in Range(out.order[i]) :
                    /\ TransitiveDeps(graph, n) \subseteq Before(out.order, i)
                    /\ i > 1 => DependsOnOf(graph, n) \cap Range(out.order[i - 1]) # {}

\* two steps in the first group and one, depending on both, in the second
C12_Witness ==
    /\ op = "get_parallel_groups"
    /\ out.kind = "ok"
    /\ out.order = <<<<2, 3>>, <<1>>>>
    /\ DependsOnOf(graph, 1) = {2, 3}

\* C13 (step_complete callback coverage): when on_step_complete is
\* supplied it has been called exactly once with every StepResult recorded
\* in setup_results, step_results and teardown_results, the main steps
\* recorded SKIPPED after an abort included, in the order of recording and
\* before the next step starts: at every moment the calls made are the
\* results recorded.
C13_CallbackCoverage ==
    on_step_complete =>
        notified = result.setup_results \o result.step_results
                      \o result.teardown_results

\* C14 (HTTP client cleanup): however execute() returns (at its end, from
\* the setup loop, through an exception of the dependency graph or of the
\* step_complete callback), the client created for the execution has been
\* closed and the executor holds none; a step is executed (and a request
\* sent) only while the client is open, never after the close.
C14_ClientCleanup ==
    /\ [](Done => client = "closed")
    /\ [](pc \notin {"idle", "done"} => client = "open")
    /\ [][calls' # calls => client = "open"]_vars
    /\ [][client = "closed" => (calls' = calls /\ client' = "closed")]_vars

\* an execution ended by the callback raising in the teardown loop
C14_Witness ==
    /\ Done
    /\ client = "closed"
    /\ result.status = ERRORED
    /\ result.error_message = ExceptionMessage("on_step_complete")
    /\ Len(result.teardown_results) = 1
    /\ Len(result.step_results) >= 1

\* C15 (no shared mutable state across executions): with two execute()
\* calls running on one WorkflowExecutor, one thread each, in every
\* interleaving each call sends its requests through the client created
\* for it, and while a call is still executing steps the other has neither
\* closed its client nor cleared the executor's.
C15_NoSharedClient ==
    /\ \A i \in DOMAIN sent :
          /\ sent[i].client = sent[i].thread
          /\ sent[i].outcome = "sent"
    /\ \A t \in Threads :
          threads[t].pc = "steps" =>
             /\ clients[t] = "open"
             /\ shared_client # 0

\* ----------------------------------------------------------------------
\* Properties of _execute_step (SpecStep)
\* ----------------------------------------------------------------------
\* C16 (condition gating): a step whose condition evaluates falsy, or whose
\* condition evaluation raises, ends SKIPPED, never ERRORED or FAILED, with
\* no request made, its variables not merged into the context and no loop
\* or poll iteration started; in the main loop such a step does not set
\* abort.
C16_ConditionGating ==
    (current_step.condition \in {"falsy", "raises"} /\ spc # "idle") =>
        /\ spc \in {"returned", "handled"}
        /\ sr.status = SKIPPED
        /\ sr.error_message \in {<<"Condition not met">>,
                                 <<"Condition evaluation failed">>}
        /\ log = <<>>
        /\ engine = NewEngine
        /\ collected = <<>>
        /\ attempts = 0
        /\ sr.poll_attempts = 0
        /\ ~abort

\* a poll step with variables whose condition raised, handled by the main
\* loop
C16_Witness ==
    /\ spc = "handled"
    /\ current_step.condition = "raises"
    /\ current_step.kind = "poll"
    /\ current_step.variables = "ok"
    /\ sr.status = SKIPPED

\* C17 (transport error classification): in a single-request step a
\* request timeout gives the status FAILED, so that the main loop applies
\* on_failure and ignore_failure to it, and any other request error gives
\* ERRORED; in both cases nothing is validated, extracted or stored as step
\* data for the request.
C17_TransportErrors ==
    (current_step.kind = "request" /\ log # <<>>
        /\ log[1].outcome \in {"timeout", "request_error"}) =>
        /\ log[1].outcome = "timeout" =>
              /\ sr.status = FAILED
              /\ spc = "handled" =>
                    abort = (policy[1].on_failure = ABORT
                             /\ policy[1].ignore_failure = FALSE)
        /\ log[1].outcome = "request_error" =>
              /\ sr.status = ERRORED
              /\ ~abort
        /\ ~log[1].validated
        /\ ~log[1].extracted
        /\ ~log[1].stored
        /\ sr.extracted_data = NoData
        /\ sr.response_body = "none"
        /\ engine.context = NoData

\* a single request with an extract key that timed out and set abort
C17_Witness ==
    /\ spc = "handled"
    /\ current_step.kind = "request"
    /\ current_step.extract
    /\ Len(log) = 1
    /\ log[1].outcome = "timeout"
    /\ abort

\* the values extracted by the requests of the call, in order: request
\* number j extracts the value j
ExtractedBy(entries) ==
    LET extracting == SelectSeq(entries, LAMBDA x : x.extracted)
    IN [j \in DOMAIN extracting |-> extracting[j].number]

\* C18 (loop aggregation): the final extracted_data[K] of a loop step is
\* the list of exactly the values its iterations extracted for K, in
\* iteration order, no iteration contributing a value extracted by another
\* iteration. (Stated for the loops that end PASSED, and asking an entry
\* only of the iterations that did extract.)
C18_LoopAggregation ==
    (/\ current_step.kind = "loop"
     /\ current_step.extract
     /\ spc \in {"returned", "handled"}
     /\ sr.status = PASSED)
    => sr.extracted_data = ListOf(ExtractedBy(log))

\* the requests before the last got a response each (no timeout, no
\* other request error)
NoTransportErrorBefore ==
    \A j \in 1..(Len(log) - 1) : log[j].outcome \in {"passed", "invalid"}

\* the poll of the step ends with the last response: its until is met by
\* it and by none before, or its while holds for it no longer
EndedByLastResponse ==
    /\ current_step.kind = "poll"
    /\ log # <<>>
    /\ NoTransportErrorBefore
    /\ \/ /\ current_step.poll_until
          /\ log[Len(log)].body = "done"
          /\ \A j \in 1..(Len(log) - 1) : log[j].body # "done"
       \/ /\ current_step.poll_while
          /\ log[Len(log)].body \in {"done", "failed"}

PollEndedPassed ==
    /\ spc \in {"returned", "handled"}
    /\ sr.status = PASSED
    /\ sr.poll_attempts = Len(log)
    /\ attempts = Len(log)

C20_PollTransportError ==
    current_step.kind = "poll" =>
        \A j \in 1..Len(log) :
            log[j].outcome = "request_error" =>
                /\ j = Len(log)
                /\ spc \in {"returned", "handled"}
                /\ sr.status = ERRORED
                /\ sr.poll_attempts = j
                /\ ~log[j].until_checked
                /\ ~log[j].while_checked

\* a pending response, then a transport error on the second attempt
C20_Witness ==
    /\ spc = "handled"
    /\ current_step.kind = "poll"
    /\ current_step.poll_until
    /\ Len(log) = 2
    /\ log[1].body = "pending"
    /\ log[1].until_checked
    /\ log[2].outcome = "request_error"
    /\ sr.status = ERRORED

\* ----------------------------------------------------------------------
\* Properties of ResponseValidator.validate (SpecValidator)
\* ----------------------------------------------------------------------
Categories == <<"status", "headers", "body", "response_time_ms", "custom">>

\* the checks of a category that the response of the latest call does not
\* meet, counted from the expectation and the response
Mismatches(category) ==
    IF category = "status"
    THEN IF response.status \in ExpectedStatus(expect) THEN 0 ELSE 1
    ELSE IF category = "headers"
    THEN Cardinality({i \in DOMAIN expect.headers :
                        HeaderOf(response, expect.headers[i]) # 1})
    ELSE IF category = "body"
    THEN (IF expect.body.id = "value" /\ response.id # 1 THEN 1 ELSE 0)
         + (IF expect.body.items = "length" /\ response.items = 0 THEN 1 ELSE 0)
         + (IF expect.body.name = "miss" THEN 1 ELSE 0)
    ELSE IF category = "response_time_ms"
    THEN IF expect.response_time_ms # "none" /\ response.time_ms > 1 THEN 1 ELSE 0
    ELSE Cardinality({i \in DOMAIN expect.custom :
                        ~EvaluateCustomCheck(expect.custom[i], response)})

FailuresOf(errors, category) ==
    Len(SelectSeq(errors, LAMBDA x : x.category = category))

\* C21 (validator accumulation): the list validate returns holds, for each
\* of status, headers, body, response time and custom, one failure per
\* check of that category the response does not meet, whatever the other
\* categories found, in that order of categories; so it is empty exactly
\* when every check passes, and it holds nothing of an earlier call.
C21_ValidatorAccumulation ==
    validated.kind = "returned" =>
        /\ \A k \in DOMAIN Categories :
              FailuresOf(validated.errors, Categories[k]) = Mismatches(Categories[k])
        /\ \A i, j \in DOMAIN validated.errors :
              i < j => Index(Categories, validated.errors[i].category)
                         <= Index(Categories, validated.errors[j].category)
        /\ validated.errors = <<>> <=>
              \A k \in DOMAIN Categories : Mismatches(Categories[k]) = 0

\* a response failing one check in each of the five categories gives five
\* failures
C21_Witness ==
    /\ validated.kind = "returned"
    /\ \A k \in DOMAIN Categories : Mismatches(Categories[k]) = 1
    /\ Len(validated.errors) = 5
    /\ validator.errors = validated.errors

\* ----------------------------------------------------------------------
\* Properties of ExpressionEngine.evaluate (SpecExpr)
\* ----------------------------------------------------------------------
Placeholder == <<"$", "{", "x", "}">>

\* x is in the context, and the value it has there
Known == context.top.has \/ context.variables.has
ValueOfX == IF context.top.has THEN context.top.value ELSE context.variables.value

\* A string made of placeholders ${x} and other text: the ways to cut it
\* into pieces, each the letter x or a placeholder.
Cuts(s) ==
    {cut \in UNION {[1..n -> {"x", "${x}"}] : n \in 0..Len(s)} :
        LET RECURSIVE Flat(_)
            Flat(k) == IF k = 0 THEN <<>>
                       ELSE Flat(k - 1) \o (IF cut[k] = "x" THEN <<"x">> ELSE Placeholder)
        IN Flat(Len(cut)) = s}

\* each placeholder of a cut replaced by the string form of x's value,
\* nothing for None
RECURSIVE Rendered(_, _)
Rendered(cut, k) ==
    IF k = 0 THEN <<>>
    ELSE Rendered(cut, k - 1)
         \o (IF cut[k] = "x" THEN <<"x">>
             ELSE IF ValueOfX.type = "NoneType" THEN <<>> ELSE ValueOfX.val)

\* what the claim says evaluate makes of a template or an integer
RECURSIVE Resolved(_)
Resolved(v) ==
    IF v = Str(Placeholder) THEN ValueOfX
    ELSE IF v = Str(<<"x">> \o Placeholder)
    THEN Str(<<"x">> \o (IF ValueOfX.type = "NoneType" THEN <<>> ELSE ValueOfX.val))
    ELSE IF v.type \in {"list", "dict"}
    THEN [v EXCEPT !.items = [i \in DOMAIN v.items |-> Resolved(v.items[i])]]
    ELSE v

C22_Evaluated ==
    evaluated.kind # "none" =>
        \* exactly one ${x}: the value of x, with its type
        /\ value = Str(Placeholder) /\ Known => evaluated = Evaluated(ValueOfX)
        \* placeholders with other text, or several placeholders: a string
        /\ value.type = "str" /\ Known =>
              \A cut \in Cuts(value.val) :
                 Len(cut) >= 2 /\ (\E k \in DOMAIN cut : cut[k] = "${x}")
                    => evaluated = Evaluated(Str(Rendered(cut, Len(cut))))
        \* no ${ at all, or no string, list or dict: unchanged
        /\ \/ /\ value.type = "str"
              /\ ~\E i \in 1..(Len(value.val) - 1) :
                     value.val[i] = "$" /\ value.val[i + 1] = "{"
           \/ value.type \notin {"str", "list", "dict"}
           => evaluated = Evaluated(value)
        \* lists and dicts: the same keys and length, each item resolved
        /\ value.type \in {"list", "dict"} /\ Known =>
              /\ evaluated.kind = "returned"
              /\ evaluated.value.type = value.type
              /\ evaluated.value.keys = value.keys
              /\ Len(evaluated.value.items) = Len(value.items)
              /\ evaluated.value = Resolved(value)

\* C22 (typed versus interpolated resolution): evaluate on a string that
\* is exactly one ${x} returns the context's value of x with its type; on
\* a string holding ${x} with other text it returns the string with every
\* placeholder replaced by the string form of the value, nothing for None;
\* a dict or list comes back with the same keys and length and every item
\* resolved; a value without ${ comes back unchanged; and the context is
\* the same after the call.
C22_TypedVsInterpolated == []C22_Evaluated /\ [][context' = context]_vars

\* ["${x}", "x${x}"] with x = 5 gives [5, "x5"]
C22_Witness ==
    /\ value = PyList(<<Str(Placeholder), Str(<<"x">> \o Placeholder)>>)
    /\ context.top = Bound(Int5)
    /\ evaluated = Evaluated(PyList(<<Int5, Str(<<"x", "5">>)>>))

\* ----------------------------------------------------------------------
\* Properties of WorkflowParser.parse_dict (SpecParser)
\* ----------------------------------------------------------------------
\* two steps of the workflow, in whatever sections, have one name
SharesName(w) ==
    \E i, j \in DOMAIN AllSteps(w) : i # j /\ AllSteps(w)[i].name = AllSteps(w)[j].name

MainNamesOf(w) == {w.steps[i].name : i \in DOMAIN w.steps}

\* a main step depends on a name that no main step has
DependsOutside(w) ==
    \E i \in DOMAIN w.steps : ~(w.steps[i].depends_on \subseteq MainNamesOf(w))

\* the names a main step reaches through depends_on in at most n hops
RECURSIVE Reached(_, _, _)
Reached(w, names, n) ==
    IF n = 0 THEN names
    ELSE Reached(w, names \cup UNION {w.steps[i].depends_on :
                                        i \in {k \in DOMAIN w.steps : w.steps[k].name \in names}},
                 n - 1)

\* a main step reaches itself
DependsInCycle(w) ==
    \E i \in DOMAIN w.steps :
        w.steps[i].name \in Reached(w, w.steps[i].depends_on, Len(w.steps))

IllFormed(w) == SharesName(w) \/ DependsOutside(w) \/ DependsInCycle(w)

\* C23 (parser structural invariant): parse_dict returns no workflow in
\* which two steps of setup, steps and teardown share a name, a main step
\* depends on a name outside the steps section, or the steps depend on
\* each other in a cycle; for a document with such a workflow it raises an
\* error and returns no WorkflowFile.
C23_ParserStructure ==
    parsed.kind # "none" =>
        /\ IllFormed(document) =>
              /\ parsed.kind \in {"WorkflowParseError", "WorkflowValidationError"}
              /\ parsed.workflows = <<>>
        /\ parsed.kind = "WorkflowFile" =>
              /\ parsed.workflows # <<>>
              /\ \A i \in DOMAIN parsed.workflows : ~IllFormed(parsed.workflows[i])

\* a main step that depends on the setup step is rejected
C23_Witness ==
    /\ parsed.kind \in {"WorkflowParseError", "WorkflowValidationError"}
    /\ Len(document.setup) = 1
    /\ Len(document.steps) = 1
    /\ document.steps[1].depends_on = {document.setup[1].name}
    /\ ~SharesName(document)
    /\ ~DependsInCycle(document)

\* C24 (validation error kind): whatever _validate_workflow rejects comes
\* out of parse_dict as a WorkflowValidationError that carries the name of
\* the workflow.
C24_ValidationErrorKind ==
    parsed.raised_in = "_validate_workflow" =>
        /\ parsed.kind = "WorkflowValidationError"
        /\ parsed.workflow_name = "B"

\* C25 (loop/poll exclusivity): no step of a workflow that parse_dict
\* returns has both a loop and a poll.
C25_LoopPollExclusive ==
    parsed.kind = "WorkflowFile" =>
        \A i \in DOMAIN parsed.workflows :
            \A k \in DOMAIN AllSteps(parsed.workflows[i]) :
                ~(/\ AllSteps(parsed.workflows[i])[k].loop # "none"
                  /\ AllSteps(parsed.workflows[i])[k].poll # "none")

\* ----------------------------------------------------------------------
\* Properties of DataCollector.record_test (SpecCollector)
\* ----------------------------------------------------------------------
RECURSIVE SumOver(_, _)
SumOver(f, S) ==
    IF S = {} THEN 0
    ELSE LET k == CHOOSE k \in S : TRUE IN f[k] + SumOver(f, S \ {k})

\* the record_test calls that have returned
Recorded == SumOver([t \in Threads |-> recorders[t].done], Threads)

\* C26 (DataCollector thread safety): whenever no record_test call is under
\* way, with N calls made from the threads in whatever interleaving,
\* total_tests = N = len(test_results) = passed + failed + errored +
\* skipped, and the total_tests of the endpoints sum to N.
C26_CollectorThreadSafety ==
    (\A t \in Threads : recorders[t].pc = "idle") =>
        LET run_info == collector.run_info
        IN /\ run_info.total_tests = Recorded
           /\ Len(run_info.test_results) = Recorded
           /\ run_info.passed + run_info.failed + run_info.errored
                + run_info.skipped = Recorded
           /\ SumOver(run_info.endpoints, DOMAIN run_info.endpoints) = Recorded

\* two threads have recorded two tests each, taking turns
C26_Witness ==
    /\ \A t \in Threads : recorders[t].pc = "idle" /\ recorders[t].done = 2
    /\ collector.run_info.total_tests = 4
    /\ [i \in 1..4 |-> collector.run_info.test_results[i].thread] = <<1, 2, 1, 2>>

\* ----------------------------------------------------------------------
\* Properties of the StepResult and the engine of _execute_step (SpecStep)
\* ----------------------------------------------------------------------
TerminalStatuses == {PASSED, FAILED, SKIPPED, ERRORED}

\* _execute_step has returned its StepResult
StepReturned == spc \in {"returned", "handled"}

\* C27 (terminal step status): the StepResult _execute_step returns, which
\* execute() records and hands to the callback, has a status among PASSED,
\* FAILED, SKIPPED and ERRORED and an end_time that is set, for
\* single-request, loop and poll steps and for every exception raised in
\* the step logic.
C27_TerminalStatus ==
    StepReturned => (sr.status \in TerminalStatuses /\ sr.end_time)

\* a loop step from whose second response extraction raised, recorded
C27_Witness ==
    /\ spc = "handled"
    /\ current_step.kind = "loop"
    /\ Len(log) = 2
    /\ log[2].outcome = "extraction_error"
    /\ sr.status = ERRORED
    /\ sr.end_time

\* C28 (single finalization): finish is called exactly once on each
\* StepResult, and the status it has reached never changes again, for loop
\* and poll steps as for single-request steps.
C28_SingleFinalization ==
    /\ Len(sr.finished) <= 1
    /\ StepReturned => Len(sr.finished) = 1
    /\ \A i \in 1..Len(sr.finished) : sr.finished[i] = sr.finished[1]

\* C29 (response scoping): after _execute_step has returned, whatever the
\* outcome, the context holds no __response__, and a ${response.*}
\* reference evaluated before the next request raises rather than resolve
\* to the response of the step that returned.
C29_ResponseScoping ==
    StepReturned =>
        (~engine.response /\ ResolveResponseReference(engine) = "ExpressionError")

\* what the last request of the log did, when the step just taken made one
Requested == Len(log') = Len(log) + 1
LastRequest == log'[Len(log')]

\* every request of the log extracted and stored the step data only with
\* its validation passed
ExtractionGated ==
    \A i \in 1..Len(log) :
        /\ log[i].extracted => log[i].outcome = "passed"
        /\ log[i].stored => log[i].outcome = "passed"
        /\ log[i].outcome = "invalid" => (~log[i].extracted /\ ~log[i].stored)
        /\ log[i].outcome = "extraction_error" => log[i].validated

\* C30 (extraction only after a passing validation): a request extracts,
\* merges and calls set_step_data only when the validator returned no
\* failures; a request whose validation fails leaves the variables of the
\* context and __steps__ as they were, but for a loop that ends PASSED on
\* its until condition and merges the collected lists; after a
\* single-request step whose validation failed a ${steps.<name>} reference
\* raises ExpressionError; extraction raises only for a validated response.
C30_ExtractionAfterValidation ==
    /\ [](ExtractionGated /\
          ((StepReturned /\ current_step.kind = "request" /\ Len(log) = 1
              /\ log[1].outcome = "invalid") =>
               /\ engine.context = NoData
               /\ ResolveStepsReference(engine) = "ExpressionError"))
    /\ [][(/\ Requested
           /\ LastRequest.outcome = "invalid"
           /\ ~(current_step.kind = "loop" /\ sr'.status = PASSED)) =>
              (engine'.context = engine.context /\ engine'.steps = engine.steps)]_vars

\* C30 as claimed: after any step whose validation failed, and any step
\* that did not pass, the context is unchanged and the reference raises.
C30_ExtractionAfterValidationAsClaimed ==
    /\ [](ExtractionGated /\
          ((StepReturned /\ sr.status # PASSED) =>
               ResolveStepsReference(engine) = "ExpressionError"))
    /\ [][(Requested /\ LastRequest.outcome = "invalid") =>
              (engine'.context = engine.context /\ engine'.steps = engine.steps)]_vars

\* a single request with an extract key whose response failed validation
C30_Witness ==
    /\ spc = "handled"
    /\ current_step.kind = "request"
    /\ current_step.extract
    /\ Len(log) = 1
    /\ log[1].outcome = "invalid"
    /\ sr.status = FAILED
    /\ engine.context = NoData
    /\ ~engine.steps

\* ----------------------------------------------------------------------
\* Properties of _execute_loop (SpecStep)
\* ----------------------------------------------------------------------
\* iteration i of the loop ended FAILED: its validation failed, or its
\* request timed out
IterationFailed(i) == log[i].outcome \in {"invalid", "timeout"}

\* iteration i was the last, the step has returned with the status
LoopEndedAt(i, status) ==
    /\ i = Len(log)
    /\ StepReturned
    /\ sr.status = status

\* C31 (loop failure handling): in a fixed-count loop an iteration that
\* ends FAILED with until absent, falsy or raising ends the step FAILED
\* with no further iteration; with until truthy the loop stops and the
\* step ends PASSED, after a FAILED iteration as after a passing one. When
\* iterating over a collection a FAILED iteration ends the step FAILED and
\* until is never evaluated.
C31_LoopFailureHandling ==
    current_step.kind = "loop" =>
        \A i \in 1..Len(log) :
            /\ (current_step.mode = "count" /\ IterationFailed(i)
                  /\ log[i].until \in {"unevaluated", "false", "raises"})
                  => LoopEndedAt(i, FAILED)
            /\ (current_step.mode = "count" /\ log[i].until = "true")
                  => LoopEndedAt(i, PASSED)
            /\ current_step.mode = "over"
                  => /\ log[i].until = "unevaluated"
                     /\ IterationFailed(i) => LoopEndedAt(i, FAILED)

\* a count loop of three whose second iteration failed validation with
\* until truthy, after a first iteration that passed with until falsy
C31_Witness ==
    /\ spc = "handled"
    /\ current_step.kind = "loop"
    /\ current_step.mode = "count"
    /\ current_step.n = 3
    /\ Len(log) = 2
    /\ log[1].outcome = "passed"
    /\ log[1].until = "false"
    /\ log[2].outcome = "invalid"
    /\ log[2].until = "true"
    /\ sr.status = PASSED

\* C32 (loop variable restoration): after a loop step has completed, PASSED
\* or FAILED, the context holds under the name loop.as what it held before
\* the loop started: here nothing, the name being absent before.
C32_LoopVariableRestored ==
    (StepReturned /\ current_step.kind = "loop") => engine.as_var = <<>>

\* ----------------------------------------------------------------------
\* Properties of _execute_poll against the clock (SpecPoll)
\* ----------------------------------------------------------------------
\* C33 (poll liveness): a poll with interval > 0 and timeout > 0, whose
\* requests return and whose sleeps let time pass, eventually returns with
\* a terminal status, whether or not until or while is ever satisfied; it
\* issues at most (timeout div interval) + 1 requests, and none once the
\* time elapsed since the start, the initial delay included, has reached
\* the timeout.
C33_PollLiveness ==
    /\ <>(polling.pc = "done" /\ polling.status \in {PASSED, FAILED, ERRORED})
    /\ [](polling.requests <= (poll_config.timeout \div poll_config.interval) + 1)
    /\ [][polling'.requests > polling.requests =>
             polling.clock < poll_config.timeout]_vars

\* a poll that timed out having issued every request its timeout lets it
C33_Witness ==
    /\ polling.pc = "done"
    /\ poll_config.timeout = 3
    /\ poll_config.interval = 2
    /\ poll_config.initial_delay = 0
    /\ polling.requests = 2
    /\ polling.status = FAILED
    /\ polling.clock >= poll_config.timeout

\* ----------------------------------------------------------------------
\* Properties of _execute_poll (SpecStep)
\* ----------------------------------------------------------------------
\* the poll loop was entered and left by one of its own returns
PollReturned ==
    /\ StepReturned
    /\ current_step.kind = "poll"
    /\ attempts > 0
    /\ (Len(log) = 0 \/ log[Len(log)].outcome # "extraction_error")

\* C34 (poll_attempts accounting): on every exit of a poll step (until
\* satisfied, while falsified, transport error, timeout with on_timeout
\* fail or another value) the recorded poll_attempts is the number of
\* requests the step issued.
C34_PollAttemptsAccounting ==
    PollReturned => sr.poll_attempts = Len(log)

\* ----------------------------------------------------------------------
\* Properties of execute(): ERRORED steps, dependencies, retry (Spec)
\* ----------------------------------------------------------------------
\* the step just taken recorded a result of the status in the setup or
\* the main phase, for a step it executed
RecordedIn(phase, status) ==
    /\ pc = phase
    /\ calls' # calls
    /\ LET results == IF phase = "setup" THEN result'.setup_results
                      ELSE result'.step_results
       IN results[Len(results)].status = status

\* the names of the workflow's steps in the order execute() reaches them
WholeOrder ==
    [k \in DOMAIN workflow.setup |-> workflow.setup[k].name]
        \o execution_order
        \o [k \in DOMAIN workflow.teardown |-> workflow.teardown[k].name]

\* C35 (ERRORED is not treated as failure): a setup or main step that ends
\* ERRORED does not set abort and does not end the setup phase, the loop
\* goes on to the next step, and an execution in which no step ends FAILED
\* (and no exception reaches execute) ends PASSED with every step
\* executed, ERRORED results recorded or not.
C35_ErroredNotFailure ==
    /\ [][(RecordedIn("setup", ERRORED) \/ RecordedIn("main", ERRORED)) =>
             /\ ~abort'
             /\ pc' # "done"
             /\ <<pc', idx'>> = Goto(pc, idx + 1, execution_order)]_vars
    /\ []((Done /\ ~Raised /\ FailedSteps(result) = 0) =>
             (result.status = PASSED /\ calls = WholeOrder))

\* a workflow that ended PASSED with an ERRORED setup step and an ERRORED
\* main step, the step depending on it executed after it
C35_Witness ==
    /\ Done
    /\ result.status = PASSED
    /\ Len(result.setup_results) = 1
    /\ result.setup_results[1].status = ERRORED
    /\ Len(result.step_results) = 2
    /\ result.step_results[1].status = ERRORED
    /\ result.step_results[1].step_name
          \in graph.nodes[result.step_results[2].step_name].depends_on
    /\ result.step_results[2].status = PASSED

\* C36 (dependency outcomes are not consulted): while abort is not set,
\* the main loop executes every step of the execution order, whatever the
\* end of the steps it depends on (FAILED and continued, ERRORED, SKIPPED
\* by its condition) and whether or not they are in the completed set.
C36_DependenciesNotConsulted ==
    /\ [][(pc = "main" /\ ~abort) =>
             calls' = Append(calls, execution_order[idx])]_vars
    /\ []((CompletedRun /\ ~abort) =>
             /\ Names(result.step_results) = execution_order
             /\ calls = WholeOrder)

\* a step executed after the step it depends on failed and was continued
\* past, the dependency not in the completed set
C36_Witness ==
    /\ Done
    /\ ~abort
    /\ Len(result.step_results) = 2
    /\ result.step_results[1].status = FAILED
    /\ result.step_results[1].step_name \notin completed
    /\ result.step_results[1].step_name
          \in graph.nodes[result.step_results[2].step_name].depends_on
    /\ result.step_results[2].status = PASSED
    /\ calls = WholeOrder

\* the last two statuses finish was called with on the StepResult
LastTwoFinished(r) == SubSeq(r.finished, Len(r.finished) - 1, Len(r.finished))

\* C37 (poll outcome ignores expectation failures): a poll attempt whose
\* response fails validation, or whose request times out, does not end the
\* poll: either polling goes on, or the same attempt satisfies until or
\* falsifies while and the step ends PASSED over the FAILED status the
\* attempt had set; and a response that satisfies until ends the step
\* PASSED whether it, or attempts before it, failed validation or timed
\* out.
C37_PollIgnoresFailures ==
    /\ [][(spc = "poll" /\ Requested
             /\ LastRequest.outcome \in {"invalid", "timeout"}) =>
             \/ (spc' = "poll" /\ sr'.status = FAILED)
             \/ /\ spc' = "returned"
                /\ sr'.status = PASSED
                /\ LastRequest.until_checked \/ LastRequest.while_checked
                /\ LastTwoFinished(sr') = <<FAILED, PASSED>>]_vars
    /\ []((StepReturned /\ current_step.kind = "poll" /\ current_step.poll_until
             /\ log # <<>> /\ log[Len(log)].outcome \in {"passed", "invalid"}
             /\ log[Len(log)].body = "done") => sr.status = PASSED)

\* a poll whose first response failed validation, whose second request
\* timed out, and whose third response failed validation and satisfied
\* until
C37_Witness ==
    /\ spc = "handled"
    /\ current_step.kind = "poll"
    /\ current_step.poll_until
    /\ Len(log) = 3
    /\ log[1].outcome = "invalid"
    /\ log[2].outcome = "timeout"
    /\ log[3].outcome = "invalid"
    /\ log[3].body = "done"
    /\ sr.status = PASSED
    /\ sr.finished = <<FAILED, FAILED, FAILED, PASSED>>

\* the loop ran to the end of its iterations: none ended FAILED, none
\* raised, and no until stopped it
RanToEnd ==
    /\ StepReturned
    /\ current_step.kind = "loop"
    /\ \A i \in 1..Len(log) :
          /\ ~IterationFailed(i)
          /\ log[i].outcome # "extraction_error"
          /\ log[i].until # "true"

\* some iteration's request ended ERRORED
SomeErroredIteration == \E i \in 1..Len(log) : log[i].outcome = "request_error"

RetryHandled ==
    /\ spc = "handled"
    /\ sr.status = FAILED
    /\ policy # <<>>
    /\ policy[1].on_failure = RETRY

\* C39 (on_failure=retry performs no retry), as amended: handling the
\* FAILED result of a step with on_failure=retry issues no further request
\* and leaves the StepResult as it is; abort is not set, and the completed
\* set is what on_failure=continue gives; every request of the step was
\* issued once, a single-request step having issued exactly one.
C39_RetryPerformsNoRetry ==
    /\ [][(spc = "returned" /\ spc' = "handled" /\ sr.status = FAILED
             /\ policy'[1].on_failure = RETRY) =>
             /\ log' = log
             /\ sr' = sr
             /\ attempts' = attempts
             /\ ~abort'
             /\ completed' = IF policy'[1].ignore_failure THEN {1} ELSE {}]_vars
    /\ [](RetryHandled =>
             /\ ~abort
             /\ \A i \in 1..Len(log) : log[i].number = i
             /\ current_step.kind = "request" => Len(log) = 1
             /\ current_step.kind = "loop" => Len(log) <= current_step.n)

\* C39 as claimed: whatever the step, it has issued exactly one request.
C39_RetryPerformsNoRetryAsClaimed ==
    RetryHandled => (~abort /\ Len(log) = 1)

\* a single request that failed validation, read with on_failure=retry
C39_Witness ==
    /\ RetryHandled
    /\ current_step.kind = "request"
    /\ ~policy[1].ignore_failure
    /\ Len(log) = 1
    /\ log[1].outcome = "invalid"
    /\ ~abort
    /\ completed = {}

\* ----------------------------------------------------------------------
\* Properties of IDStore.clear (SpecStore)
\* ----------------------------------------------------------------------
\* the StoredIDs of the resource type that the store still holds, in an
\* index or in the list of all IDs
Held(s, resource_type) ==
    {i \in Range(s.all_ids)
        \cup UNION {Range(s.by_parameter[k]) : k \in DOMAIN s.by_parameter}
        \cup UNION {Range(s.by_endpoint[k]) : k \in DOMAIN s.by_endpoint}
        \cup UNION {Range(s.by_field_name[k]) : k \in DOMAIN s.by_field_name} :
        s.objects[i].extracted_id.resource_type = resource_type}

\* C40 (clear(resource_type=T) is complete): after any sequence of store,
\* mark_deleted and clear operations, stores beyond max_ids_per_type
\* included, clear(T) leaves no StoredID of type T in the by-parameter,
\* by-endpoint and by-field-name indexes or in the list of all IDs, no
\* get_for_parameter returns one, and len(store) counts none.
C40_ClearComplete ==
    (store_op.name = "clear" /\ store_op.resource_type \in ResourceTypes) =>
        /\ Held(id_store, store_op.resource_type) = {}
        /\ \A name \in ParameterNames \cup FieldNames :
              \A i \in GetForParameter(id_store, name) :
                 id_store.objects[i].extracted_id.resource_type
                    # store_op.resource_type
        /\ Len(SelectSeq(id_store.all_ids,
                         LAMBDA i : id_store.objects[i].extracted_id.resource_type
                                       = store_op.resource_type)) = 0

====
